---- MODULE Spec2Model ----
(***************************************************************************)
(* The retryable HTTP client of pkg/transport/httpclient: one Do call of a *)
(* RetryableClient, the request context and the clock it races with, the   *)
(* retry policy, the backoff computation and the request body factory      *)
(* (specification Spec); and the decorators of pkg/transport: one round    *)
(* trip through a transport that RoundTripChain.Apply built                 *)
(* (specification RoundTripSpec).                                          *)
(*                                                                         *)
(* Time is counted in whole seconds since 1970-01-01 00:00:00 GMT; a       *)
(* time.Duration is a number of seconds.  A Go string is a sequence of     *)
(* one-character strings.                                                  *)
(***************************************************************************)
EXTENDS Integers, Sequences, FiniteSets, TLC

VARIABLES
    client,       \* the *RetryableClient: RetryMax, CheckRetry, BackoffStrategy
    req,          \* the *http.Request Do works on: GetBody, Body, retry count
    payload,      \* the bytes the caller built the request from
    ctx,          \* req.Context(): its error and its deadline
    now,          \* the wall clock
    pc,           \* where Do stands
    i,            \* Do's loop counter
    resp,         \* Do's local resp
    err,          \* Do's local err
    shouldRetry,  \* Do's local shouldRetry
    retryErr,     \* Do's local retryErr
    backoffWait,  \* Do's local backoffWait
    timerAt,      \* when the channel of time.After(backoffWait) delivers
    woken,        \* the case of the select that won
    ret,          \* what Do returned: <<response, error>>
    exit,         \* the return statement Do left by
    calls,        \* invocations of c.Client.Do so far
    checks,       \* consultations of checkRetry so far
    waits,        \* selects entered so far
    last,         \* what the latest c.Client.Do returned
    getBodyErr,   \* what the latest req.GetBody() returned as its error
    seen,         \* RetryCount of the request of each invocation of c.Client.Do
    inflight,     \* invocations of c.Client.Do that have not returned yet
    factoryCalls, \* invocations of req.GetBody so far
    config,       \* the clientOptions the transport is built from
    chain,        \* the RoundTripChain handed to Apply
    transport,    \* the http.RoundTripper Apply returned, outermost layer first
    constructed,  \* the indices of the decorators Apply called, in call order
    request,      \* the *http.Request on its way down the layers
    phase,        \* where the round trip stands
    layer,        \* the layer of the transport that is executing
    result,       \* what the layer below returned: response and error
    events,       \* what the layers did so far, in order
    stats,        \* PooledTransport.stats: the counter each key is mapped to
    cells,        \* the int64 counters allocated so far
    proc,         \* what each goroutine using the PooledTransport is doing
    conns,        \* the connections DialContext returned, in order of return
    dialed,       \* calls of DialContext so far
    reported,     \* what the latest Stats() returned
    reading,      \* the Stats() call under way: the keys it must visit, the values it loaded
    boMin,        \* the min ExponentialBackoff was built with
    boMax,        \* the max ExponentialBackoff was built with
    slept,        \* what the BackoffFunc returned for attempt 0, 1, 2, ...
    rawBody,      \* the rawBody NewRequest is given, with its read offset
    newReq,       \* what NewRequest returned: request and error
    bodies,       \* what the reader of each req.GetBody() call produced
    classified,   \* the response handed to the classifier and to the policy
    answers,      \* what the classifier and the policy answered
    headers,      \* the http.Header maps allocated so far
    callerReq,    \* the *http.Request the caller passes to every Do call
    doReq,        \* the req of the Do call under way
    retryNo,      \* the loop counter of the Do call under way
    doPc,         \* where the Do call under way stands
    doLast,       \* what the latest c.Client.Do of that call returned
    returned,     \* Do calls that returned so far
    retryMax,     \* the RetryMax of the client NewRetryable built
    sent,         \* what the base transport saw of each outgoing attempt
    metrics,      \* what telemetry.Incr was called with, in order
    sharedClient, \* the *RetryableClient several goroutines call Do on
    frames,       \* the locals req, resp, err and i of each Do call
    running,      \* where the Do call of each goroutine stands
    contexts,     \* the error of the request context of each goroutine
    invoked,      \* per goroutine, the requests c.Client.Do was invoked with
    answered,     \* per goroutine, what c.Client.Do returned, in order
    results,      \* per goroutine, what Do returned
    cacheStore,   \* the items of the cache store, by key
    cacheClock,   \* the time the cache decorator reads
    originCalls,  \* invocations of the wrapped transport, by method and URL
    served,       \* what the cache decorator answered, in order
    removals,     \* per key, the deletions and evictions so far
    drainMax,     \* the RetryMax of the client whose Do drains bodies
    drainI,       \* the loop counter of that Do call
    drainPc,      \* where that Do call stands
    drainLast,    \* resp and err of its latest attempt, with the state of the body
    drainLog,     \* what that Do call did, in order
    drainCtx,     \* whether the context of its request has a deadline, and its error
    brkMax,       \* the RetryMax of the client whose transport has a circuit breaker
    brkI,         \* the loop counter of that Do call
    brkPc,        \* where that Do call stands
    brkCtx,       \* the deadline and the error of the context of its request
    brkLast,      \* resp and err of its latest attempt
    brkLog,       \* what that Do call and the breaker did, in order
    rdBody,       \* the body under the errorReadCloser: bytes left, the error it ended with, closed or not
    rdLog         \* the calls of Read and Close on the wrapped body and the metrics recorded, in order

vars == <<client, req, payload, ctx, now, pc, i, resp, err, shouldRetry,
          retryErr, backoffWait, timerAt, woken, ret, exit, calls, checks, waits,
          last, getBodyErr, seen, inflight, factoryCalls,
          config, chain, transport, constructed, request, phase, layer, result,
          events,
          stats, cells, proc, conns, dialed, reported, reading,
          boMin, boMax, slept,
          rawBody, newReq, bodies,
          classified, answers,
          headers, callerReq, doReq, retryNo, doPc, doLast, returned, retryMax,
          sent, metrics,
          sharedClient, frames, running, contexts, invoked, answered, results,
          cacheStore, cacheClock, originCalls, served, removals,
          drainMax, drainI, drainPc, drainLast, drainLog, drainCtx,
          brkMax, brkI, brkPc, brkCtx, brkLast, brkLog,
          rdBody, rdLog>>

\* The state of the Do call, and the state of the round trip.
doVars == <<client, req, payload, ctx, now, pc, i, resp, err, shouldRetry,
            retryErr, backoffWait, timerAt, woken, ret, exit, calls, checks,
            waits, last, getBodyErr, seen, inflight, factoryCalls>>
rtVars == <<config, chain, transport, constructed, request, phase, layer, result,
            events>>

\* The state of the PooledTransport and of the goroutines dialing through it.
poolVars == <<stats, cells, proc, conns, dialed, reported, reading>>

\* The BackoffFunc ExponentialBackoff returned and what it was asked.
boVars == <<boMin, boMax, slept>>

\* The request NewRequest builds from a body, and the body.
reqVars == <<rawBody, newReq, bodies>>

\* The response the default classifier and the default policy are asked
\* about, and their answers.
clVars == <<classified, answers>>

\* The request a caller passes to Do more than once, and its headers.
hdrVars == <<headers, callerReq, doReq, retryNo, doPc, doLast, returned,
             retryMax, sent>>

\* The counters the response hooks of the client recorded.
metricVars == <<metrics>>

\* Do calls of several goroutines on one client.
coVars == <<sharedClient, frames, running, contexts, invoked, answered, results>>

\* The cache decorator over a shared cache store.
cacheVars == <<cacheStore, cacheClock, originCalls, served, removals>>

\* A Do call and the bodies of the responses it retries on.
drainVars == <<drainMax, drainI, drainPc, drainLast, drainLog, drainCtx>>

\* A Do call through the circuit breaker round tripper.
brkVars == <<brkMax, brkI, brkPc, brkCtx, brkLast, brkLog>>

\* The body of one response returned by the extended tracing decorator.
readVars == <<rdBody, rdLog>>

\* What neither the Do call nor the round trip touches.
otherVars == <<poolVars, boVars, reqVars, clVars, hdrVars,
              metricVars, coVars, cacheVars, drainVars, brkVars, readVars>>

\* No PooledTransport is in use.
NoPool ==
    /\ stats = <<>>
    /\ cells = <<>>
    /\ proc = <<>>
    /\ conns = <<>>
    /\ dialed = 0
    /\ reported = <<>>
    /\ reading = <<>>

\* No BackoffFunc of ExponentialBackoff is in use.
NoBackoffFunc ==
    /\ boMin = <<>>
    /\ boMax = <<>>
    /\ slept = <<>>

\* No request is being built from a body.
NoNewRequest ==
    /\ rawBody = <<>>
    /\ newReq = <<>>
    /\ bodies = <<>>

\* No response is being classified.
NoVerdict ==
    /\ classified = <<>>
    /\ answers = <<>>

\* No request is passed to Do more than once.
NoReuse ==
    /\ headers = <<>>
    /\ callerReq = <<>>
    /\ doReq = <<>>
    /\ retryNo = 0
    /\ doPc = "none"
    /\ doLast = <<>>
    /\ returned = 0
    /\ retryMax = 0
    /\ sent = <<>>

\* No response hook of the client has run.
NoMetrics ==
    /\ metrics = <<>>

\* No goroutines call Do on a shared client.
NoConcurrency ==
    /\ sharedClient = <<>>
    /\ frames = <<>>
    /\ running = <<>>
    /\ contexts = <<>>
    /\ invoked = <<>>
    /\ answered = <<>>
    /\ results = <<>>

\* No cache decorator is in use.
NoCache ==
    /\ cacheStore = <<>>
    /\ cacheClock = 0
    /\ originCalls = <<>>
    /\ served = <<>>
    /\ removals = <<>>

\* No Do call is draining response bodies.
NoDrain ==
    /\ drainMax = 0
    /\ drainI = 0
    /\ drainPc = "none"
    /\ drainLast = <<>>
    /\ drainLog = <<>>
    /\ drainCtx = <<>>

\* No Do call runs through a circuit breaker.
NoBreakerRetry ==
    /\ brkMax = 0
    /\ brkI = 0
    /\ brkPc = "none"
    /\ brkCtx = <<>>
    /\ brkLast = <<>>
    /\ brkLog = <<>>

\* No caller holds a wrapped response body.
NoReads ==
    /\ rdBody = <<>>
    /\ rdLog = <<>>

\* Nothing but the Do call and the round trip is in use.
NoOther ==
    /\ NoPool
    /\ NoBackoffFunc
    /\ NoNewRequest
    /\ NoVerdict
    /\ NoReuse
    /\ NoMetrics
    /\ NoConcurrency
    /\ NoCache
    /\ NoDrain
    /\ NoBreakerRetry
    /\ NoReads

\* No round trip through a decorated transport is under way.
NoRoundTrip ==
    /\ config = <<>>
    /\ chain = <<>>
    /\ transport = <<>>
    /\ constructed = <<>>
    /\ request = <<>>
    /\ phase = "none"
    /\ layer = 0
    /\ result = <<>>
    /\ events = <<>>

\* No Do call is under way.
NoDo ==
    /\ client = <<>>
    /\ req = <<>>
    /\ payload = <<>>
    /\ ctx = <<>>
    /\ now = 0
    /\ pc = "none"
    /\ i = 0
    /\ resp = <<>>
    /\ err = "nil"
    /\ shouldRetry = FALSE
    /\ retryErr = "nil"
    /\ backoffWait = 0
    /\ timerAt = 0
    /\ woken = "none"
    /\ ret = <<>>
    /\ exit = "none"
    /\ calls = 0
    /\ checks = 0
    /\ waits = 0
    /\ last = <<>>
    /\ getBodyErr = "nil"
    /\ seen = <<>>
    /\ inflight = 0
    /\ factoryCalls = 0

----------------------------------------------------------------------------
(* Bounds of the model. *)

MaxRetryMax == 2
MaxTime == 2
MaxPayloadLen == 1

----------------------------------------------------------------------------
(* Values. *)

NoErr == "nil"
Canceled == "context canceled"
DeadlineExceeded == "context deadline exceeded"
TransportErr == "transport error"
PolicyErr == "policy error"
BodyErr == "body factory error"

NoDeadline == -1

StatusTooManyRequests == 429
StatusInternalServerError == 500
StatusNotImplemented == 501
StatusServiceUnavailable == 503

\* A body reader: the bytes behind it and how many of them were consumed.
Reader(data) == [data |-> data, pos |-> 0]
NoBody == [data |-> <<>>, pos |-> 0]

\* A *http.Response: nil, or a status, the values of its Retry-After header
\* (<<>> when the key is absent) and whether its body is still open.
NilResp == [isNil |-> TRUE, StatusCode |-> 0, RetryAfter |-> <<>>, Body |-> "none"]
Response(status, retryAfter) ==
    [isNil |-> FALSE, StatusCode |-> status, RetryAfter |-> retryAfter, Body |-> "open"]

----------------------------------------------------------------------------
(* strconv.Atoi and time.Parse(http.TimeFormat, _) on the strings used.    *)

Digits == <<"0", "1", "2", "3", "4", "5", "6", "7", "8", "9">>
IsDigit(c) == \E d \in 1..10 : Digits[d] = c
DigitVal(c) == (CHOOSE d \in 1..10 : Digits[d] = c) - 1

RECURSIVE DigitsValue(_)
DigitsValue(s) ==
    IF s = <<>> THEN 0
    ELSE DigitsValue(SubSeq(s, 1, Len(s) - 1)) * 10 + DigitVal(s[Len(s)])

\* strconv.Atoi: an optional sign and at least one decimal digit.
Atoi(s) ==
    LET signed == s # <<>> /\ s[1] \in {"+", "-"}
        digits == IF signed THEN Tail(s) ELSE s
    IN  IF digits = <<>> \/ \E k \in 1..Len(digits) : ~IsDigit(digits[k])
        THEN [err |-> TRUE, val |-> 0]
        ELSE [err |-> FALSE,
              val |-> IF signed /\ s[1] = "-" THEN 0 - DigitsValue(digits)
                      ELSE DigitsValue(digits)]

\* The dates of the first minute of the epoch in http.TimeFormat,
\* "Thu, 01 Jan 1970 00:00:SS GMT".
DatePrefix == <<"T", "h", "u", ",", " ", "0", "1", " ", "J", "a", "n", " ",
                "1", "9", "7", "0", " ", "0", "0", ":", "0", "0", ":">>
DateSuffix == <<" ", "G", "M", "T">>
HTTPDate(t) == DatePrefix \o <<Digits[(t \div 10) + 1], Digits[(t % 10) + 1]>> \o DateSuffix

\* time.Parse(http.TimeFormat, s) on those dates; anything else is an error.
ParseHTTPTime(s) ==
    LET n == Len(DatePrefix)
    IN  IF /\ Len(s) = n + 2 + Len(DateSuffix)
           /\ SubSeq(s, 1, n) = DatePrefix
           /\ SubSeq(s, n + 3, Len(s)) = DateSuffix
           /\ IsDigit(s[n + 1]) /\ IsDigit(s[n + 2])
           /\ DigitVal(s[n + 1]) < 6
        THEN [err |-> FALSE, when |-> DigitVal(s[n + 1]) * 10 + DigitVal(s[n + 2])]
        ELSE [err |-> TRUE, when |-> 0]

----------------------------------------------------------------------------
(* Backoff strategies: a BackoffFunc is the closure the constructor built. *)

NilBackoff == [kind |-> "nil", min |-> 0, max |-> 0]
ConstantBackoff(wait) == [kind |-> "ConstantBackoff", min |-> wait, max |-> wait]
LinearJitterBackoff(min, max) == [kind |-> "LinearJitterBackoff", min |-> min, max |-> max]

\* The values int64(r.Float64() * float64(max-min)) can take for strategy f.
JitterDraws(f) ==
    IF f.kind = "LinearJitterBackoff" /\ f.max > f.min
    THEN 0..(f.max - f.min - 1)
    ELSE {0}

\* c.BackoffStrategy(attempt), with `jitter` the random draw of this call.
ApplyBackoff(f, attempt, jitter) ==
    IF f.kind = "ConstantBackoff" THEN f.min
    ELSE IF f.max <= f.min THEN f.min * (attempt + 1)
    ELSE (jitter + f.min) * (attempt + 1)

\* retryAfterDuration(t) read at wall-clock time `clock`.
retryAfterDuration(t, clock) ==
    LET parsed == ParseHTTPTime(t)
        d == Atoi(t)
    IN  IF ~parsed.err THEN [err |-> FALSE, sleep |-> parsed.when - clock]
        ELSE IF d.err THEN [err |-> TRUE, sleep |-> 0]
        ELSE [err |-> FALSE, sleep |-> d.val]

\* A variant of backoffDuration that honours Retry-After on a 503 only.
backoffDuration_Only503(c, attemptNum, r, clock, jitter) ==
    IF /\ ~r.isNil
       /\ r.StatusCode = StatusServiceUnavailable
       /\ r.RetryAfter # <<>>
       /\ ~retryAfterDuration(r.RetryAfter[1], clock).err
    THEN retryAfterDuration(r.RetryAfter[1], clock).sleep
    ELSE IF c.BackoffStrategy.kind # "nil"
         THEN ApplyBackoff(c.BackoffStrategy, attemptNum, jitter)
         ELSE 0

\* (c *RetryableClient) backoffDuration(attemptNum, resp).
backoffDuration(c, attemptNum, r, clock, jitter) ==
    IF /\ ~r.isNil
       /\ r.StatusCode \in {StatusTooManyRequests, StatusServiceUnavailable}
       /\ r.RetryAfter # <<>>
       /\ ~retryAfterDuration(r.RetryAfter[1], clock).err
    THEN retryAfterDuration(r.RetryAfter[1], clock).sleep
    ELSE IF c.BackoffStrategy.kind # "nil"
         THEN ApplyBackoff(c.BackoffStrategy, attemptNum, jitter)
         ELSE 0

----------------------------------------------------------------------------
(* Retry policies: a CheckRetryFunc answers <<retry, error>>.               *)

NoRetryPolicy(ctxErr, r, e) == <<FALSE, e>>

\* Variants of ServerErrorsRetryPolicy with a slip: one that retries a 501
\* like any other 5xx, one that looks at the error before the context.
ServerErrorsRetryPolicy_Retry501(ctxErr, r, e) ==
    IF ctxErr # NoErr THEN <<FALSE, ctxErr>>
    ELSE IF e # NoErr THEN <<TRUE, e>>
    ELSE IF r.StatusCode = 0 \/ r.StatusCode >= StatusInternalServerError
         THEN <<TRUE, NoErr>>
         ELSE <<FALSE, NoErr>>

ServerErrorsRetryPolicy_ErrFirst(ctxErr, r, e) ==
    IF e # NoErr THEN <<TRUE, e>>
    ELSE IF ctxErr # NoErr THEN <<FALSE, ctxErr>>
    ELSE IF r.StatusCode = 0
            \/ (r.StatusCode >= StatusInternalServerError
                /\ r.StatusCode # StatusNotImplemented)
         THEN <<TRUE, NoErr>>
         ELSE <<FALSE, NoErr>>

ServerErrorsRetryPolicy(ctxErr, r, e) ==
    IF ctxErr # NoErr THEN <<FALSE, ctxErr>>
    ELSE IF e # NoErr THEN <<TRUE, e>>
    ELSE IF r.StatusCode = 0
            \/ (r.StatusCode >= StatusInternalServerError
                /\ r.StatusCode # StatusNotImplemented)
         THEN <<TRUE, NoErr>>
         ELSE <<FALSE, NoErr>>

\* What a CheckRetryFunc written by the caller may answer.
CustomAnswers == BOOLEAN \X {NoErr, PolicyErr}

\* (c *RetryableClient) checkRetry(ctx, res, err); `answer` is what the
\* caller's function answers when one is configured.
checkRetry(c, ctxErr, r, e, answer) ==
    IF c.CheckRetry = "custom" THEN answer
    ELSE IF c.CheckRetry = "NoRetryPolicy" THEN NoRetryPolicy(ctxErr, r, e)
    ELSE ServerErrorsRetryPolicy(ctxErr, r, e)

\* A variant of drainBody that leaves the body open.
drainBody_LeavesOpen(r) == r

\* (c *RetryableClient) drainBody(resp.Body), as it leaves the response.
drainBody(r) == [r EXCEPT !.Body = "closed"]

----------------------------------------------------------------------------
(* Requests.                                                               *)

\* NewRequest(ctx, method, url, rawBody) for rawBody nil, a []byte and a
\* ReaderFunc over the bytes `data`.
NewRequest(type, data) ==
    IF type = "nil"
    THEN [GetBody |-> "nil", Body |-> NoBody, retries |-> <<>>]
    ELSE [GetBody |-> type, Body |-> Reader(data), retries |-> <<>>]

\* http.NewRequestWithContext over a reader that cannot be rewound.
StdRequest(data) == [GetBody |-> "nil", Body |-> Reader(data), retries |-> <<>>]

\* RetryCount(r): the retry attempt carried by the context of r, 0 when the
\* context carries none.
RetryCount(r) == IF r.retries = <<>> THEN 0 ELSE r.retries[1]

\* r.WithContext(withRetries(r.Context(), retries)).
withRetries(r, n) == [r EXCEPT !.retries = <<n>>]

\* req.GetBody(): the factory of a []byte never fails, a caller's
\* ReaderFunc fails when `fails`.
GetBody(r, data, fails) ==
    IF r.GetBody = "ReaderFunc" /\ fails
    THEN [body |-> NoBody, err |-> BodyErr]
    ELSE [body |-> Reader(data), err |-> NoErr]

\* Variants of requestFromInternal: one that keeps the body of the previous
\* attempt, one that goes on when the body factory fails.
requestFromInternal_NoRewind(r, retryAttempt, data, fails) ==
    LET r2 == IF retryAttempt > 0 THEN withRetries(r, retryAttempt) ELSE r
        got == GetBody(r, data, fails)
    IN  IF r.GetBody # "nil" /\ got.err # NoErr
        THEN [req |-> r2, err |-> got.err,
              getBody |-> IF r.GetBody # "nil" THEN 1 ELSE 0]
        ELSE [req |-> r2, err |-> NoErr,
              getBody |-> IF r.GetBody # "nil" THEN 1 ELSE 0]

requestFromInternal_IgnoresErr(r, retryAttempt, data, fails) ==
    LET r2 == IF retryAttempt > 0 THEN withRetries(r, retryAttempt) ELSE r
        got == GetBody(r, data, fails)
    IN  IF r.GetBody # "nil" /\ got.err = NoErr
        THEN [req |-> [r2 EXCEPT !.Body = got.body], err |-> NoErr,
              getBody |-> IF r.GetBody # "nil" THEN 1 ELSE 0]
        ELSE [req |-> r2, err |-> NoErr,
              getBody |-> IF r.GetBody # "nil" THEN 1 ELSE 0]

\* A variant of requestFromInternal that rewinds the body on retries only.
requestFromInternal_RetryOnly(r, retryAttempt, data, fails) ==
    LET r2 == IF retryAttempt > 0 THEN withRetries(r, retryAttempt) ELSE r
        got == GetBody(r, data, fails)
    IN  IF r.GetBody # "nil" /\ retryAttempt > 0
        THEN IF got.err # NoErr
             THEN [req |-> r2, err |-> got.err, getBody |-> 1]
             ELSE [req |-> [r2 EXCEPT !.Body = got.body], err |-> NoErr,
                   getBody |-> 1]
        ELSE [req |-> r2, err |-> NoErr, getBody |-> 0]

\* requestFromInternal(req, retryAttempt).
requestFromInternal(r, retryAttempt, data, fails) ==
    LET r2 == IF retryAttempt > 0 THEN withRetries(r, retryAttempt) ELSE r
        got == GetBody(r, data, fails)
    IN  IF r.GetBody # "nil"
        THEN IF got.err # NoErr
             THEN [req |-> r2, err |-> got.err,
              getBody |-> IF r.GetBody # "nil" THEN 1 ELSE 0]
             ELSE [req |-> [r2 EXCEPT !.Body = got.body], err |-> NoErr,
                   getBody |-> IF r.GetBody # "nil" THEN 1 ELSE 0]
        ELSE [req |-> r2, err |-> NoErr,
              getBody |-> IF r.GetBody # "nil" THEN 1 ELSE 0]

----------------------------------------------------------------------------
(* The inputs.                                                             *)

Payload(n) == [k \in 1..n |-> k]
Payloads == {Payload(MaxPayloadLen)}

RetryAfterValues == {<<"2">>, <<"-", "1">>, <<"s", "o", "o", "n">>, HTTPDate(MaxTime)}

Responses ==
    {Response(s, <<>>) : s \in {0, 200, StatusTooManyRequests,
                                StatusInternalServerError, StatusNotImplemented,
                                StatusServiceUnavailable}}
    \cup {Response(StatusServiceUnavailable, <<v>>) : v \in RetryAfterValues}
    \cup {Response(StatusTooManyRequests, <<(<<"2">>)>>),
          Response(StatusInternalServerError, <<(<<"2">>)>>)}

\* What c.Client.Do can return: a response, an error, or (when CheckRedirect
\* fails) both, the redirect response with its body already closed.
TransportOutcomes ==
    {[resp |-> r, err |-> NoErr] : r \in Responses}
    \cup {[resp |-> NilResp, err |-> TransportErr],
          [resp |-> [Response(302, <<>>) EXCEPT !.Body = "closed"],
           err |-> TransportErr]}

BackoffStrategies ==
    {NilBackoff, ConstantBackoff(1), LinearJitterBackoff(1, 3)}

Clients ==
    [RetryMax : 0..MaxRetryMax,
     CheckRetry : {"nil", "ServerErrorsRetryPolicy", "NoRetryPolicy", "custom"},
     BackoffStrategy : BackoffStrategies]

\* The requests a caller hands to Do; the last one was built on the context
\* of a request that an enclosing Do call sent as its retry MaxRetryMax.
Requests(data) ==
    {NewRequest("nil", data), NewRequest("[]byte", data),
     NewRequest("ReaderFunc", data), StdRequest(data),
     withRetries(NewRequest("nil", data), MaxRetryMax)}

Deadlines == {NoDeadline} \cup 1..MaxTime

----------------------------------------------------------------------------
(* One Do call.                                                            *)

Init ==
    /\ client \in Clients
    /\ payload \in Payloads
    /\ req \in Requests(payload)
    /\ ctx \in [err : {NoErr}, deadline : Deadlines]
    /\ now = 0
    /\ pc = "prepare"
    /\ i = 0
    /\ resp = NilResp
    /\ err = NoErr
    /\ shouldRetry = FALSE
    /\ retryErr = NoErr
    /\ backoffWait = 0
    /\ timerAt = 0
    /\ woken = "none"
    /\ ret = <<NilResp, NoErr>>
    /\ exit = "none"
    /\ calls = 0
    /\ checks = 0
    /\ waits = 0
    /\ last = [resp |-> NilResp, err |-> NoErr]
    /\ getBodyErr = NoErr
    /\ seen = <<>>
    /\ inflight = 0
    /\ factoryCalls = 0
    /\ NoRoundTrip
    /\ NoOther

\* A return statement of Do.
Return(line, r, e) ==
    /\ pc' = "done"
    /\ exit' = line
    /\ ret' = <<r, e>>

\* Lines 58-61: build the request of attempt i.
Prepare ==
    /\ pc = "prepare"
    /\ \E fails \in BOOLEAN :
         LET r == requestFromInternal(req, i, payload, fails)
         IN  /\ getBodyErr' = IF req.GetBody # "nil" THEN GetBody(req, payload, fails).err
                            ELSE getBodyErr
             /\ factoryCalls' = factoryCalls + r.getBody
             /\ IF r.err # NoErr
                THEN /\ Return("L60", NilResp, r.err)
                     /\ err' = r.err
                     /\ UNCHANGED req
                ELSE /\ req' = r.req
                     /\ pc' = "call"
                     /\ UNCHANGED <<ret, exit, err>>
    /\ UNCHANGED <<seen, inflight>>
    /\ UNCHANGED <<rtVars, otherVars>>
    /\ UNCHANGED <<client, payload, ctx, now, i, resp, shouldRetry, retryErr,
                   backoffWait, timerAt, woken, calls, checks, waits, last>>

\* Line 64: c.Client.Do(req) is invoked with the request of this attempt.
Call ==
    /\ pc = "call"
    /\ calls' = calls + 1
    /\ seen' = Append(seen, RetryCount(req))
    /\ inflight' = inflight + 1
    /\ pc' = "inflight"
    /\ UNCHANGED <<rtVars, otherVars>>
    /\ UNCHANGED <<client, req, payload, ctx, now, i, resp, err, shouldRetry,
                   retryErr, backoffWait, timerAt, woken, ret, exit, checks, waits,
                   last, getBodyErr, factoryCalls>>

\* Line 64: c.Client.Do(req) returns; the transport has read n more bytes
\* of the body.
CallReturn ==
    /\ pc = "inflight"
    /\ \E out \in TransportOutcomes, n \in 0..(Len(req.Body.data) - req.Body.pos) :
         /\ resp' = out.resp
         /\ err' = out.err
         /\ last' = out
         /\ req' = [req EXCEPT !.Body.pos = @ + n]
    /\ inflight' = inflight - 1
    /\ pc' = "check"
    /\ UNCHANGED <<rtVars, otherVars>>
    /\ UNCHANGED <<client, payload, ctx, now, i, shouldRetry, retryErr,
                   backoffWait, timerAt, woken, ret, exit, calls, checks, waits,
                   getBodyErr, seen, factoryCalls>>

\* A variant of StopErr that drops the error of the policy.
StopErr_KeepsRequestErr(re, e) == e

\* The error Do returns when the policy says stop (lines 73-78).
StopErr(re, e) == IF re # NoErr THEN re ELSE e

\* The error Do returns when no retries are left (line 84).
ExhaustedErr(re, e) == e

\* A variant of retriesExhausted that is off by one.
retriesExhausted_OffByOne(c, attempt) == c.RetryMax - attempt < 0

\* Lines 82-85: no retries are left after attempt number `attempt`.
retriesExhausted(c, attempt) == c.RetryMax - attempt <= 0

\* Lines 70-89: consult the policy, stop, give up, or go on to retry, by
\* way of drainBody when the attempt returned a response and no error.
Check ==
    /\ pc = "check"
    /\ \E answer \in CustomAnswers :
         LET a == checkRetry(client, ctx.err, resp, err, answer)
         IN  /\ shouldRetry' = a[1]
             /\ retryErr' = a[2]
             /\ IF ~a[1]
                THEN /\ Return("L77", resp, StopErr(a[2], err))
                     /\ err' = StopErr(a[2], err)
                     /\ UNCHANGED resp
                ELSE IF retriesExhausted(client, i)
                THEN /\ Return("L84", resp, ExhaustedErr(a[2], err))
                     /\ UNCHANGED <<resp, err>>
                ELSE /\ pc' = IF err = NoErr /\ ~resp.isNil THEN "drain" ELSE "backoff"
                     /\ UNCHANGED <<ret, exit, resp, err>>
    /\ checks' = checks + 1
    /\ UNCHANGED <<seen, inflight, factoryCalls>>
    /\ UNCHANGED <<rtVars, otherVars>>
    /\ UNCHANGED <<client, req, payload, ctx, now, i, backoffWait, timerAt,
                   woken, calls, waits, last, getBodyErr>>

\* Lines 90, 116-123: drainBody has read from the connection and closed the
\* body; time may have passed meanwhile.
Drain ==
    /\ pc = "drain"
    /\ resp' = drainBody(resp)
    /\ pc' = "backoff"
    /\ UNCHANGED <<seen, inflight, factoryCalls>>
    /\ UNCHANGED <<rtVars, otherVars>>
    /\ UNCHANGED <<client, req, payload, ctx, now, i, err, shouldRetry, retryErr,
                   backoffWait, timerAt, woken, ret, exit, calls, checks, waits,
                   last, getBodyErr>>

\* A variant of deadlineComesFirst that waits when the deadline and the end
\* of the wait coincide.
deadlineComesFirst_Strict(deadline, clock, wait) ==
    deadline # NoDeadline /\ deadline - clock < wait

\* Lines 99-104: the context has a deadline and time.Until(deadline) is at
\* most the wait.
deadlineComesFirst(deadline, clock, wait) ==
    deadline # NoDeadline /\ deadline - clock <= wait

\* Lines 94-104: compute the wait; return when the deadline comes first.
Backoff ==
    /\ pc = "backoff"
    /\ \E jitter \in JitterDraws(client.BackoffStrategy) :
         LET w == backoffDuration(client, i, resp, now, jitter)
         IN  /\ backoffWait' = w
             /\ IF deadlineComesFirst(ctx.deadline, now, w)
                THEN Return("L102", resp, err)
                ELSE /\ pc' = "select"
                     /\ UNCHANGED <<ret, exit>>
    /\ UNCHANGED <<seen, inflight, factoryCalls>>
    /\ UNCHANGED <<rtVars, otherVars>>
    /\ UNCHANGED <<client, req, payload, ctx, now, i, resp, err, shouldRetry,
                   retryErr, timerAt, woken, calls, checks, waits, last, getBodyErr>>

\* Lines 107-111, entering the select: a case that is ready wins at once
\* (either of two ready cases may), otherwise Do parks on both channels.
Select ==
    /\ pc = "select"
    /\ timerAt' = now + backoffWait
    /\ woken' \in (IF ctx.err # NoErr THEN {"ctx"} ELSE {})
                  \cup (IF backoffWait <= 0 THEN {"timer"} ELSE {})
                  \cup (IF ctx.err = NoErr /\ backoffWait > 0 THEN {"none"} ELSE {})
    /\ waits' = waits + 1
    /\ pc' = "wait"
    /\ UNCHANGED <<seen, inflight, factoryCalls>>
    /\ UNCHANGED <<rtVars, otherVars>>
    /\ UNCHANGED <<client, req, payload, ctx, now, i, resp, err, shouldRetry,
                   retryErr, backoffWait, ret, exit, calls, checks, last, getBodyErr>>

\* The channel of time.After delivers while Do is parked.
TimerFire ==
    /\ pc = "wait"
    /\ woken = "none"
    /\ now >= timerAt
    /\ woken' = "timer"
    /\ UNCHANGED <<seen, inflight, factoryCalls>>
    /\ UNCHANGED <<rtVars, otherVars>>
    /\ UNCHANGED <<client, req, payload, ctx, now, pc, i, resp, err, shouldRetry,
                   retryErr, backoffWait, timerAt, ret, exit, calls, checks, waits,
                   last, getBodyErr>>

\* A variant of ctxDoneReturn that returns the last attempt instead.
ctxDoneReturn_LastAttempt(r, e, ctxErr) == <<r, e>>

\* Line 109: what Do returns when ctx.Done() won the select.
ctxDoneReturn(r, e, ctxErr) == <<NilResp, ctxErr>>

\* Lines 108-111: Do leaves the select by the case that won.
Resume ==
    /\ pc = "wait"
    /\ woken # "none"
    /\ IF woken = "ctx"
       THEN /\ Return("L109", ctxDoneReturn(resp, err, ctx.err)[1],
                              ctxDoneReturn(resp, err, ctx.err)[2])
            /\ UNCHANGED <<i, woken>>
       ELSE /\ i' = i + 1
            /\ pc' = "prepare"
            /\ woken' = "none"
            /\ UNCHANGED <<ret, exit>>
    /\ UNCHANGED <<seen, inflight, factoryCalls>>
    /\ UNCHANGED <<rtVars, otherVars>>
    /\ UNCHANGED <<client, req, payload, ctx, now, resp, err, shouldRetry,
                   retryErr, backoffWait, timerAt, calls, checks, waits, last, getBodyErr>>

\* The select, once the context is done: a parked select that no case has
\* won yet is won by ctx.Done().
CtxDoneWakes(at, w) == IF at = "wait" /\ w = "none" THEN "ctx" ELSE w

\* The caller cancels the context.
Cancel ==
    /\ ctx.err = NoErr
    /\ pc # "done"
    /\ ctx' = [ctx EXCEPT !.err = Canceled]
    /\ woken' = CtxDoneWakes(pc, woken)
    /\ UNCHANGED <<seen, inflight, factoryCalls>>
    /\ UNCHANGED <<rtVars, otherVars>>
    /\ UNCHANGED <<client, req, payload, now, pc, i, resp, err, shouldRetry,
                   retryErr, backoffWait, timerAt, ret, exit, calls, checks, waits,
                   last, getBodyErr>>

\* The deadline of the context has come.
Expire ==
    /\ ctx.err = NoErr
    /\ pc # "done"
    /\ ctx.deadline # NoDeadline
    /\ now >= ctx.deadline
    /\ ctx' = [ctx EXCEPT !.err = DeadlineExceeded]
    /\ woken' = CtxDoneWakes(pc, woken)
    /\ UNCHANGED <<seen, inflight, factoryCalls>>
    /\ UNCHANGED <<rtVars, otherVars>>
    /\ UNCHANGED <<client, req, payload, now, pc, i, resp, err, shouldRetry,
                   retryErr, backoffWait, timerAt, ret, exit, calls, checks, waits,
                   last, getBodyErr>>

\* A second passes while Do is blocked in the transport, in the reads of
\* drainBody or in the select; a timer that is due fires before the next
\* one does.
Tick ==
    /\ pc \in {"inflight", "drain", "wait"}
    /\ now < MaxTime
    /\ ~ENABLED Expire
    /\ ~ENABLED TimerFire
    /\ pc = "wait" => woken = "none"
    /\ now' = now + 1
    /\ UNCHANGED <<seen, inflight, factoryCalls>>
    /\ UNCHANGED <<rtVars, otherVars>>
    /\ UNCHANGED <<client, req, payload, ctx, pc, i, resp, err, shouldRetry,
                   retryErr, backoffWait, timerAt, woken, ret, exit, calls,
                   checks, waits, last, getBodyErr>>

Next ==
    \/ Prepare
    \/ Call
    \/ CallReturn
    \/ Check
    \/ Drain
    \/ Backoff
    \/ Select
    \/ TimerFire
    \/ Resume
    \/ Cancel
    \/ Expire
    \/ Tick

Spec == Init /\ [][Next]_vars

----------------------------------------------------------------------------
(* Vocabulary of the properties.                                           *)

DefaultPolicy == client.CheckRetry \in {"nil", "ServerErrorsRetryPolicy"}

\* The context was never cancelled and has no deadline.
ContextLive == ctx.err = NoErr /\ ctx.deadline = NoDeadline

\* An outcome of the transport the default policy retries.
RetryableOutcome(o) ==
    \/ o.err # NoErr
    \/ o.resp.StatusCode = 0
    \/ (o.resp.StatusCode >= 500 /\ o.resp.StatusCode # 501)

\* Two values of one response, whatever was done to its body.
SameResponse(a, b) ==
    /\ a.isNil = b.isNil
    /\ a.StatusCode = b.StatusCode
    /\ a.RetryAfter = b.RetryAfter

----------------------------------------------------------------------------
(* C1: with RetryMax = N >= 0, a context never cancelled and without       *)
(* deadline, a body factory that does not fail and every attempt judged    *)
(* retryable, Do ends after exactly N+1 invocations of the transport, by   *)
(* the "no retries left" return, and returns the response and the error of *)
(* the last invocation, untouched: no other error is produced.             *)
C1_RetryBound ==
    (pc = "done" /\ ContextLive /\ exit # "L60" /\ shouldRetry)
        => /\ calls = client.RetryMax + 1
           /\ exit = "L84"
           /\ ret = <<last.resp, last.err>>

C1_Witness ==
    /\ pc = "done"
    /\ ContextLive
    /\ shouldRetry
    /\ client.RetryMax = MaxRetryMax
    /\ calls = MaxRetryMax + 1
    /\ last.err = TransportErr
    /\ ret = <<NilResp, TransportErr>>

(* C2 as stated: with RetryMax = 0 (and a body factory that does not fail) *)
(* Do invokes the transport once and returns exactly the pair the          *)
(* transport returned, whatever the policy answers.                        *)
C2_Original ==
    (pc = "done" /\ client.RetryMax = 0 /\ exit # "L60")
        => /\ calls = 1
           /\ ret = <<last.resp, last.err>>

(* C2 amended: with RetryMax = 0 and a body factory that does not fail, Do *)
(* invokes the transport exactly once and returns the response the         *)
(* transport returned, body untouched; the error it returns is the         *)
(* transport's, unless the policy said stop with an error of its own,      *)
(* which is then returned in its place.                                    *)
C2_NoRetryPassthrough ==
    (pc = "done" /\ client.RetryMax = 0 /\ exit # "L60")
        => /\ calls = 1
           /\ exit \in {"L77", "L84"}
           /\ ret[1] = last.resp
           /\ ret[2] = IF ~shouldRetry /\ retryErr # NoErr THEN retryErr ELSE last.err

C2_Witness ==
    /\ pc = "done"
    /\ client.RetryMax = 0
    /\ calls = 1
    /\ DefaultPolicy
    /\ last.err = TransportErr
    /\ ret[2] = Canceled

(* C3: under the default policy, with a context never cancelled and        *)
(* without deadline and a body factory that does not fail, Do goes on      *)
(* while the outcomes are retryable and retries are left; on the first     *)
(* outcome that is not retryable, at attempt k+1 with k <= RetryMax, it    *)
(* returns that response, body unread, with a nil error after exactly k+1  *)
(* invocations.                                                            *)
C3_RetryThenSuccess ==
    (pc = "done" /\ DefaultPolicy /\ ContextLive /\ exit # "L60")
        => IF RetryableOutcome(last)
           THEN exit = "L84" /\ calls = client.RetryMax + 1
           ELSE /\ exit = "L77"
                /\ ret = <<last.resp, NoErr>>
                /\ ret[1].Body = "open"
                /\ calls = i + 1
                /\ i <= client.RetryMax

C3_Witness ==
    /\ pc = "done"
    /\ client.CheckRetry = "ServerErrorsRetryPolicy"
    /\ client.BackoffStrategy = NilBackoff
    /\ ContextLive
    /\ i = MaxRetryMax
    /\ calls = MaxRetryMax + 1
    /\ ret = <<Response(200, <<>>), NoErr>>

(* C7: the default policy answers, in this order: (stop, the context's     *)
(* error) when the context is cancelled or expired; else (retry, the       *)
(* transport's error) when there is one; else retry exactly when the       *)
(* status is 0 or is at least 500 and not 501, with a nil error.           *)
C7_DefaultPolicy ==
    [][(checks' = checks + 1 /\ DefaultPolicy)
        => <<shouldRetry', retryErr'>> =
             IF ctx.err # NoErr THEN <<FALSE, ctx.err>>
             ELSE IF last.err # NoErr THEN <<TRUE, last.err>>
             ELSE <<last.resp.StatusCode = 0
                      \/ (last.resp.StatusCode >= 500 /\ last.resp.StatusCode # 501),
                    NoErr>>]_vars

C7_Witness ==
    /\ checks = 1
    /\ DefaultPolicy
    /\ ~shouldRetry
    /\ retryErr = NoErr
    /\ last = [resp |-> Response(StatusNotImplemented, <<>>), err |-> NoErr]

(* C4: a context that is done while Do is parked in the select, before   *)
(* the timer delivered, wins the select; Do then returns a nil response    *)
(* and the context's error, not the last attempt, and the transport is not *)
(* invoked again.                                                          *)
C4_CancelDuringWait ==
    [][/\ (pc = "wait" /\ woken = "none" /\ ctx.err = NoErr /\ ctx'.err # NoErr)
            => woken' = "ctx"
       /\ (pc = "wait" /\ woken = "ctx")
            => /\ calls' = calls
               /\ woken' = "ctx"
               /\ \/ pc' = "wait"
                  \/ /\ pc' = "done"
                     /\ ret' = <<NilResp, ctx.err>>
                     /\ ret' # <<last.resp, last.err>>
                     /\ ctx.err \in {Canceled, DeadlineExceeded}]_vars

C4_Witness ==
    /\ pc = "done"
    /\ exit = "L109"
    /\ now < timerAt
    /\ last.err = TransportErr
    /\ ret = <<NilResp, Canceled>>
    /\ calls = 1
    /\ client.RetryMax > 0

(* C5: leaving the computation of the wait, Do returns exactly when the    *)
(* context has a deadline whose remaining time is at most the wait; it     *)
(* then returns the response and the error of the attempt just made,       *)
(* enters no select and invokes the transport no more; without a deadline  *)
(* it always goes on to the select.                                        *)
C5_DeadlineShortCircuit ==
    [][(pc = "backoff" /\ pc' # "backoff")
        => IF ctx.deadline # NoDeadline /\ ctx.deadline - now <= backoffWait'
           THEN /\ pc' = "done"
                /\ SameResponse(ret'[1], last.resp)
                /\ ret'[2] = last.err
                /\ calls' = calls
                /\ waits' = waits
           ELSE pc' = "select"]_vars

C5_Witness ==
    /\ pc = "done"
    /\ exit = "L102"
    /\ ctx.err = NoErr
    /\ ctx.deadline - now = backoffWait
    /\ backoffWait > 0
    /\ calls = 1
    /\ waits = 0
    /\ ret = <<NilResp, TransportErr>>

(* C6 as stated: once the context is cancelled or expired, no invocation   *)
(* of the transport begins.                                                *)
C6_NoAttemptAfterCancel ==
    [][ctx.err # NoErr => calls' = calls]_vars

(* C8: the wait is the duration of the Retry-After header (its seconds, or *)
(* its date less the current time) when the last response has status 429   *)
(* or 503 and the first value of that header parses; in every other case   *)
(* it is what the configured strategy gives for the attempt, or 0 without  *)
(* a strategy.  The timer of the select is set to that wait.               *)
C8_BackoffPrecedence ==
    [][/\ (pc = "backoff" /\ pc' # "backoff")
            => LET h == IF last.resp.RetryAfter = <<>> THEN <<>>
                        ELSE last.resp.RetryAfter[1]
                   seconds == Atoi(h)
                   date == ParseHTTPTime(h)
                   honoured == /\ ~last.resp.isNil
                               /\ last.resp.StatusCode \in {429, 503}
                               /\ last.resp.RetryAfter # <<>>
                               /\ (~seconds.err \/ ~date.err)
               IN  IF honoured
                   THEN backoffWait' = IF ~seconds.err THEN seconds.val
                                       ELSE date.when - now
                   ELSE IF client.BackoffStrategy = NilBackoff
                   THEN backoffWait' = 0
                   ELSE \E jitter \in JitterDraws(client.BackoffStrategy) :
                          backoffWait' = ApplyBackoff(client.BackoffStrategy, i, jitter)
       /\ (pc = "select" /\ pc' = "wait") => timerAt' = now + backoffWait]_vars

C8_Witness ==
    /\ pc = "wait"
    /\ last.resp = Response(StatusTooManyRequests, <<(<<"2">>)>>)
    /\ client.BackoffStrategy = ConstantBackoff(1)
    /\ backoffWait = 2
    /\ timerAt = now + 2

(* C9: whenever the transport is about to be invoked with a request that   *)
(* NewRequest built from a byte slice, the body of that request is an      *)
(* unread reader over exactly the original bytes.                          *)
C9_BodyRewound ==
    (pc = "call" /\ req.GetBody = "[]byte")
        => /\ req.Body.data = payload
           /\ req.Body.pos = 0

C9_Witness ==
    /\ pc = "call"
    /\ req.GetBody = "[]byte"
    /\ i = MaxRetryMax
    /\ calls = MaxRetryMax
    /\ Len(payload) = MaxPayloadLen
    /\ req.Body = Reader(payload)

(* C10: once the body factory has returned an error while Do prepared      *)
(* attempt i, Do has returned a nil response and that error, and the       *)
(* transport, the policy and the select each were used for the i earlier   *)
(* attempts only.                                                          *)
C10_BodyFactoryError ==
    getBodyErr # NoErr
        => /\ pc = "done"
           /\ exit = "L60"
           /\ ret = <<NilResp, getBodyErr>>
           /\ calls = i
           /\ checks = i
           /\ waits = i

C10_Witness ==
    /\ getBodyErr = BodyErr
    /\ pc = "done"
    /\ i = 1
    /\ calls = 1
    /\ ret = <<NilResp, BodyErr>>

(* C11 as stated: in every Do call the k-th invocation of the transport    *)
(* (counting from 0) is handed a request whose RetryCount is k, so that    *)
(* the counts the transport sees are 0, 1, 2, ... without gap or repeat.   *)
C11_AttemptNumbers ==
    \A k \in 1..Len(seen) : seen[k] = k - 1

(* C12 as stated: whenever the policy returned a non-nil error for the     *)
(* attempt Do returned after, by "stop" or by "no retries left", Do        *)
(* returned that error.                                                    *)
C12_Original ==
    (pc = "done" /\ exit \in {"L77", "L84"} /\ retryErr # NoErr)
        => ret[2] = retryErr

(* C12, what holds: when the policy said stop with a non-nil error, Do     *)
(* returned that error in place of the error of the request; when the      *)
(* policy said retry and no retries were left, Do returned the error of    *)
(* the last request, whatever error the policy returned with its answer.   *)
C12_PolicyErrOnStop ==
    (pc = "done" /\ retryErr # NoErr)
        => /\ exit = "L77" => ~shouldRetry /\ ret[2] = retryErr
           /\ exit = "L84" => shouldRetry /\ ret[2] = last.err

C12_Witness ==
    /\ pc = "done"
    /\ exit = "L84"
    /\ client.RetryMax = MaxRetryMax
    /\ calls = MaxRetryMax + 1
    /\ retryErr = PolicyErr
    /\ last.err = TransportErr
    /\ ret[2] = TransportErr

(* C13: at most one invocation of the transport is in flight; an           *)
(* invocation begins only when none is in flight, and one after the first  *)
(* begins only after the policy was consulted on every earlier one, the    *)
(* response of the previous one (if any) has its body closed, a select     *)
(* was entered for every earlier one and the timer of the last wait is     *)
(* due.                                                                    *)
C13_SequentialAttempts ==
    [][/\ inflight' <= 1
       /\ calls' = calls + 1
            => /\ inflight = 0
               /\ calls > 0
                    => /\ checks = calls
                       /\ waits = calls
                       /\ now >= timerAt
                       /\ SameResponse(resp, last.resp)
                       /\ ~resp.isNil => resp.Body = "closed"]_vars

C13_Witness ==
    /\ pc = "inflight"
    /\ inflight = 1
    /\ calls = 2
    /\ last.resp = Response(StatusServiceUnavailable, <<>>)
    /\ resp.Body = "closed"
    /\ backoffWait = 1
    /\ timerAt = 1
    /\ now = MaxTime

----------------------------------------------------------------------------
(* The decorators of pkg/transport.                                        *)
(*                                                                         *)
(* A RoundTripDecorator is named by its constructor.  A transport is the   *)
(* sequence of its layers, the outermost first and the base transport      *)
(* last: the decorator d applied to the transport t is <<d>> \o t.          *)

MaxChainLen == 2
MaxHooks == 2

ErrCircuitOpen == "transport: circuit breaker open"
TimeoutErr == "i/o timeout"
HookErrA == "request hook error A"
HookErrB == "request hook error B"

Decorators ==
    {"UserAgent", "Cache", "Hook", "Trace", "ExtendedTrace", "CircuitBreaker",
     "OpenTelemetry"}

\* config.Transport, the transport the chain is applied to.
BaseTransport == <<"Base">>

\* A response body: its bytes, and the layers whose errorReadCloser wraps
\* it, the innermost first.
Bytes(data) == [data |-> data, OnErr |-> <<>>]

\* A variant of errorReadCloser that loses the bytes of the body.
errorReadCloser_Empty(body, k) == [data |-> <<>>, OnErr |-> Append(body.OnErr, k)]

\* &errorReadCloser{R: body, OnErr: ...} of layer k: Read and Close are
\* those of R, and OnErr hears of the error that ends the reading.
errorReadCloser(body, k) == [body EXCEPT !.OnErr = Append(@, k)]

\* A *http.Response on its way up the layers: nil, or a status, the names
\* of its header fields and a body.
NilRes == [isNil |-> TRUE, StatusCode |-> 0, Header |-> {}, Body |-> Bytes(<<>>)]
Res(status, header, data) ==
    [isNil |-> FALSE, StatusCode |-> status, Header |-> header, Body |-> Bytes(data)]

\* What a caller gets from a response: status, header and the bytes it
\* reads from the body.
Content(r) == [isNil |-> r.isNil, StatusCode |-> r.StatusCode, Header |-> r.Header,
               bytes |-> r.Body.data]

\* What the base transport can return: a response, an error, or (against
\* the contract of http.RoundTripper) both.
BaseOutcomes ==
    {[res |-> Res(st, {"Content-Type"}, <<1, 2>>), err |-> NoErr] :
        st \in {200, 404, StatusInternalServerError, StatusNotImplemented}}
    \cup {[res |-> NilRes, err |-> TransportErr],
          [res |-> NilRes, err |-> TimeoutErr],
          [res |-> Res(StatusInternalServerError, {}, <<>>), err |-> TransportErr]}

\* The response a fresh cache entry is served as.
CachedResponse == Res(200, {"Content-Type", "X-From-Cache"}, <<1, 2>>)

\* strconv.Itoa on a number that is not negative.
RECURSIVE Itoa(_)
Itoa(n) ==
    IF n < 10 THEN <<Digits[n + 1]>>
    ELSE Itoa(n \div 10) \o <<Digits[(n % 10) + 1]>>

\* os.IsTimeout on the errors of the model.
IsTimeout(e) == e = TimeoutErr

\* A variant of recordResponse that does not tell a timeout from another
\* error.
recordResponse_TimeoutAsError(r, e) ==
    IF e = NoErr
    THEN [status |-> Itoa(r.StatusCode),
          statusClass |-> Itoa(r.StatusCode \div 100) \o <<"x", "x">>]
    ELSE [status |-> <<"e", "r", "r", "o", "r">>,
          statusClass |-> <<"e", "r", "r", "o", "r">>]

\* recordResponse: the status and status_class tags of the metric.
recordResponse(r, e) ==
    IF e = NoErr
    THEN [status |-> Itoa(r.StatusCode),
          statusClass |-> Itoa(r.StatusCode \div 100) \o <<"x", "x">>]
    ELSE IF IsTimeout(e)
    THEN [status |-> <<"t", "i", "m", "e", "o", "u", "t">>,
          statusClass |-> <<"e", "r", "r", "o", "r">>]
    ELSE [status |-> <<"e", "r", "r", "o", "r">>,
          statusClass |-> <<"e", "r", "r", "o", "r">>]

\* A variant of DefaultCircuitBreakerCheckFunc that accepts 501.
DefaultCircuitBreakerCheckFunc_Accepts501(r) ==
    r.StatusCode < 500 \/ r.StatusCode = StatusNotImplemented

\* DefaultCircuitBreakerCheckFunc: any 5xx status is a failure.
DefaultCircuitBreakerCheckFunc(r) == r.StatusCode < 500

\* A variant of RoundTripChain.Apply that walks the chain from its head.
RECURSIVE ApplyLoop_FromHead(_, _, _)
ApplyLoop_FromHead(c, x, built) ==
    IF x <= Len(c)
    THEN ApplyLoop_FromHead(c, x + 1,
             [transport |-> <<c[x]>> \o built.transport,
              constructed |-> Append(built.constructed, x)])
    ELSE built
Apply_FromHead(c, base) ==
    ApplyLoop_FromHead(c, 1, [transport |-> base, constructed |-> <<>>])

\* The loop of RoundTripChain.Apply from index x down: base = c[x](base).
RECURSIVE ApplyLoop(_, _, _)
ApplyLoop(c, x, built) ==
    IF x >= 1
    THEN ApplyLoop(c, x - 1,
             [transport |-> <<c[x]>> \o built.transport,
              constructed |-> Append(built.constructed, x)])
    ELSE built

\* RoundTripChain.Apply(base): the transport, and the constructors called.
Apply(c, base) == ApplyLoop(c, Len(c), [transport |-> base, constructed |-> <<>>])

\* A variant of roundTripper that puts the circuit breaker before the hooks.
roundTripper_BreakerFirst(cfg) ==
    <<"UserAgent">>
    \o (IF cfg.Cache THEN <<"Cache">> ELSE <<>>)
    \o (IF cfg.CircuitBreaker THEN <<"CircuitBreaker">> ELSE <<>>)
    \o <<"Hook">>
    \o (IF cfg.EnableClientTrace THEN <<"ExtendedTrace">> ELSE <<"Trace">>)
    \o <<"OpenTelemetry">>

\* roundTripper(config): the chain it applies to config.Transport.
roundTripper(cfg) ==
    <<"UserAgent">>
    \o (IF cfg.Cache THEN <<"Cache">> ELSE <<>>)
    \o <<"Hook">>
    \o (IF cfg.EnableClientTrace THEN <<"ExtendedTrace">> ELSE <<"Trace">>)
    \o (IF cfg.CircuitBreaker THEN <<"CircuitBreaker">> ELSE <<>>)
    \o <<"OpenTelemetry">>

----------------------------------------------------------------------------
(* What the layers do, as the list of events one round trip leaves.        *)
(*   RoundTrip      layer k was invoked with the request req               *)
(*   return         layer k returned (res, err)                            *)
(*   RequestHook    request hook number `hook` of layer k returned err     *)
(*   ResponseHook   response hook number `hook` of layer k was handed      *)
(*                  (req, res, err)                                        *)
(*   Allow          the breaker of layer k answered allowed = ok           *)
(*   Incr           layer k counted a request its breaker denied           *)
(*   CheckFunc      the status classifier of layer k answered ok for res   *)
(*   success, failure   layer k called that callback of the breaker        *)
(*   recordResponse layer k recorded `metric` with the tags status and     *)
(*                  statusClass                                            *)
(*   Read           the caller's Read of the body (layer 0) ended with err *)
(*   cache hit      layer k found a fresh entry                            *)

Ev(ev, k) ==
    [ev |-> ev, layer |-> k, hook |-> 0, ok |-> TRUE, req |-> request,
     res |-> NilRes, err |-> NoErr, status |-> <<>>, statusClass |-> <<>>,
     metric |-> ""]

Returned(k, r, e) == [Ev("return", k) EXCEPT !.res = r, !.err = e]

\* A variant of requestHooks that runs the hooks that follow a failed one.
RECURSIVE requestHooks_RunsAll(_, _, _)
requestHooks_RunsAll(hooks, j, k) ==
    IF j > Len(hooks) THEN [ran |-> <<>>, err |-> NoErr]
    ELSE LET rest == requestHooks_RunsAll(hooks, j + 1, k)
         IN  [ran |-> <<[Ev("RequestHook", k) EXCEPT !.hook = j, !.err = hooks[j]]>>
                      \o rest.ran,
              err |-> IF hooks[j] # NoErr THEN hooks[j] ELSE rest.err]

\* Lines 408-412 of HookRoundTripper.RoundTrip, from hook j on: each hook
\* is the error it returns; the loop ends at the first error.
RECURSIVE requestHooks(_, _, _)
requestHooks(hooks, j, k) ==
    IF j > Len(hooks) THEN [ran |-> <<>>, err |-> NoErr]
    ELSE IF hooks[j] # NoErr
    THEN [ran |-> <<[Ev("RequestHook", k) EXCEPT !.hook = j, !.err = hooks[j]]>>,
          err |-> hooks[j]]
    ELSE LET rest == requestHooks(hooks, j + 1, k)
         IN  [ran |-> <<[Ev("RequestHook", k) EXCEPT !.hook = j]>> \o rest.ran,
              err |-> rest.err]

\* A variant of responseHooks that skips the hooks after a failed round trip.
responseHooks_SkipOnErr(n, k, r, e) ==
    IF e # NoErr THEN <<>>
    ELSE [j \in 1..n |-> [Ev("ResponseHook", k) EXCEPT !.hook = j, !.res = r, !.err = e]]

\* Lines 418-420: the n response hooks, each handed (req, res, err).
responseHooks(n, k, r, e) ==
    [j \in 1..n |-> [Ev("ResponseHook", k) EXCEPT !.hook = j, !.res = r, !.err = e]]

\* A variant of breakerDenied that also reports a failure to the breaker.
breakerDenied_ReportsFailure(k) == <<Ev("Incr", k), Ev("failure", k)>>

\* Lines 66-70 of CircuitBreakerRoundTripper.RoundTrip, the breaker having
\* denied the request: the metric, and nothing else.
breakerDenied(k) == <<Ev("Incr", k)>>

\* A variant of breakerReport that reports a response whatever the error.
breakerReport_IgnoresErr(k, r, e, accepts) ==
    <<[Ev("CheckFunc", k) EXCEPT !.res = r, !.ok = accepts],
      Ev(IF accepts THEN "success" ELSE "failure", k)>>

\* Lines 73-83: what the breaker is told once the wrapped transport has
\* returned (r, e), the status classifier answering `accepts` for r.
breakerReport(k, r, e, accepts) ==
    IF e # NoErr
    THEN <<Ev("failure", k)>>
    ELSE <<[Ev("CheckFunc", k) EXCEPT !.res = r, !.ok = accepts],
           Ev(IF accepts THEN "success" ELSE "failure", k)>>

\* The names of the metrics recordResponse is called with.
httpRequestMetric == "toolkit.http.client.request.time"
httpResponseFullyReadTimingMetric == "toolkit.http.client.response_fully_read.time"

\* What a Read of a response body ends with: io.EOF or a failure.
EOF == "EOF"
ReadErr == "unexpected EOF"
ReadOutcomes == {EOF, ReadErr, TimeoutErr}

\* The event recordResponse(ctx, tags, startTime, metric, r, e) leaves.
recorded(metric, k, r, e) ==
    [Ev("recordResponse", k) EXCEPT
        !.metric = metric, !.res = r, !.err = e,
        !.status = recordResponse(r, e).status,
        !.statusClass = recordResponse(r, e).statusClass]

\* The error OnErr of ExtendedTracedRoundTripper hands to recordResponse:
\* io.EOF is no error.
OnErr_KeepsEOF(e) == e

OnErr(e) == IF e = EOF THEN NoErr ELSE e

\* errorReadCloser.Read returned e: every wrapper around the body, the
\* innermost first, has called its OnErr.
RECURSIVE fullyRead(_, _, _)
fullyRead(wrappers, r, e) ==
    IF wrappers = <<>> THEN <<>>
    ELSE <<recorded(httpResponseFullyReadTimingMetric, Head(wrappers), r, OnErr(e))>>
         \o fullyRead(Tail(wrappers), r, e)

\* The response TracedRoundTripper (line 125) and ExtendedTracedRoundTripper
\* (lines 168-193) return: the latter wraps the body of a response that
\* came without error.
tracedResponse(kind, k, r, e) ==
    IF kind = "ExtendedTrace" /\ e = NoErr
    THEN [r EXCEPT !.Body = errorReadCloser(@, k)]
    ELSE r

----------------------------------------------------------------------------
(* The inputs of a round trip.                                             *)

\* The chains of at most n decorators.
Chains(n) == UNION {[1..len -> Decorators] : len \in 0..n}

\* Request hooks, each one the error it returns; the number of response
\* hooks, none or as many as the bound allows.
RequestHooks == UNION {[1..len -> {NoErr, HookErrA, HookErrB}] : len \in 0..MaxHooks}
ResponseHooks == {0, MaxHooks}

\* The options of a client: the decorators it asks for, its hooks, and the
\* status classifier of its breaker.
Options ==
    [Cache : BOOLEAN, EnableClientTrace : BOOLEAN, CircuitBreaker : BOOLEAN,
     ReqHooks : RequestHooks, ResHooks : ResponseHooks,
     CheckFunc : {"DefaultCircuitBreakerCheckFunc", "custom"}]

\* The options of a caller that composes its own chain.
PlainOptions ==
    {o \in Options : ~o.Cache /\ ~o.EnableClientTrace /\ ~o.CircuitBreaker}

DefaultUserAgent == "httpclient-go/version"

----------------------------------------------------------------------------
(* One round trip through a transport built by Apply.                      *)

RoundTripInit ==
    /\ NoDo
    /\ NoOther
    /\ \/ /\ config \in Options
          /\ config.CheckFunc = "DefaultCircuitBreakerCheckFunc"
          /\ chain = roundTripper(config)
       \/ /\ config \in PlainOptions
          /\ chain \in Chains(MaxChainLen)
    /\ transport = <<>>
    /\ constructed = <<>>
    /\ request \in [UserAgent : {"", "caller/1.0"}]
    /\ phase = "Apply"
    /\ layer = 0
    /\ result = [res |-> NilRes, err |-> NoErr]
    /\ events = <<>>

\* The layer that is executing is a decorator of this kind and stands
\* before its call of the wrapped transport.
Entering(kind) ==
    /\ phase = "request"
    /\ transport[layer] = kind

\* The layer that is executing is a decorator of this kind and the
\* transport it wraps has just returned to it.
Resuming(kind) ==
    /\ phase = "response"
    /\ transport[layer] = kind

\* The layer that is executing calls the transport it wraps.
Descend ==
    /\ layer' = layer + 1
    /\ UNCHANGED <<phase, result>>

\* The layer that is executing returns (r, e) to its caller.
Ascend(r, e) ==
    /\ result' = [res |-> r, err |-> e]
    /\ layer' = layer - 1
    /\ phase' = IF layer = 1 THEN "returned" ELSE "response"

\* chain.Apply(config.Transport).
ApplyChain ==
    /\ phase = "Apply"
    /\ transport' = Apply(chain, BaseTransport).transport
    /\ constructed' = Apply(chain, BaseTransport).constructed
    /\ phase' = "request"
    /\ layer' = 1
    /\ UNCHANGED <<config, chain, request, result, events>>
    /\ UNCHANGED <<doVars, otherVars>>

\* The base transport serves the request.
BaseRoundTrip ==
    /\ Entering("Base")
    /\ \E out \in BaseOutcomes :
         /\ events' = events \o <<Ev("RoundTrip", layer), Returned(layer, out.res, out.err)>>
         /\ Ascend(out.res, out.err)
    /\ UNCHANGED <<config, chain, transport, constructed, request>>
    /\ UNCHANGED <<doVars, otherVars>>

\* UserAgentRoundTripper.RoundTrip, to its call of the wrapped transport.
UserAgentRoundTrip ==
    /\ Entering("UserAgent")
    /\ request' = IF request.UserAgent = ""
                  THEN [request EXCEPT !.UserAgent = DefaultUserAgent]
                  ELSE request
    /\ events' = Append(events, Ev("RoundTrip", layer))
    /\ Descend
    /\ UNCHANGED <<config, chain, transport, constructed>>
    /\ UNCHANGED <<doVars, otherVars>>

\* UserAgentRoundTripper.RoundTrip returns what the wrapped transport did.
UserAgentReturn ==
    /\ Resuming("UserAgent")
    /\ events' = Append(events, Returned(layer, result.res, result.err))
    /\ Ascend(result.res, result.err)
    /\ UNCHANGED <<config, chain, transport, constructed, request>>
    /\ UNCHANGED <<doVars, otherVars>>

\* The cache decorator: a fresh entry is served without a call of the
\* wrapped transport; otherwise the request goes on.
CacheRoundTrip ==
    /\ Entering("Cache")
    /\ \E hit \in BOOLEAN :
         IF hit
         THEN /\ events' = events \o <<Ev("RoundTrip", layer), Ev("cache hit", layer),
                                       Returned(layer, CachedResponse, NoErr)>>
              /\ Ascend(CachedResponse, NoErr)
         ELSE /\ events' = Append(events, Ev("RoundTrip", layer))
              /\ Descend
    /\ UNCHANGED <<config, chain, transport, constructed, request>>
    /\ UNCHANGED <<doVars, otherVars>>

\* The cache decorator returns what the wrapped transport did.
CacheReturn ==
    /\ Resuming("Cache")
    /\ events' = Append(events, Returned(layer, result.res, result.err))
    /\ Ascend(result.res, result.err)
    /\ UNCHANGED <<config, chain, transport, constructed, request>>
    /\ UNCHANGED <<doVars, otherVars>>

\* HookRoundTripper.RoundTrip, lines 408-414: the request hooks, and the
\* return of the error of the first one that fails.
HookRoundTrip ==
    /\ Entering("Hook")
    /\ LET hooks == requestHooks(config.ReqHooks, 1, layer)
       IN  IF hooks.err # NoErr
           THEN /\ events' = events \o <<Ev("RoundTrip", layer)>> \o hooks.ran
                                    \o <<Returned(layer, NilRes, hooks.err)>>
                /\ Ascend(NilRes, hooks.err)
           ELSE /\ events' = events \o <<Ev("RoundTrip", layer)>> \o hooks.ran
                /\ Descend
    /\ UNCHANGED <<config, chain, transport, constructed, request>>
    /\ UNCHANGED <<doVars, otherVars>>

\* HookRoundTripper.RoundTrip, lines 414-422: the response hooks, and the
\* return of what the wrapped transport returned.
HookReturn ==
    /\ Resuming("Hook")
    /\ events' = events \o responseHooks(config.ResHooks, layer, result.res, result.err)
                        \o <<Returned(layer, result.res, result.err)>>
    /\ Ascend(result.res, result.err)
    /\ UNCHANGED <<config, chain, transport, constructed, request>>
    /\ UNCHANGED <<doVars, otherVars>>

\* TracedRoundTripper.RoundTrip (lines 105-112) and
\* ExtendedTracedRoundTripper.RoundTrip (lines 159-167), to the call of the
\* wrapped transport.
TraceRoundTrip ==
    /\ \/ Entering("Trace")
       \/ Entering("ExtendedTrace")
    /\ events' = Append(events, Ev("RoundTrip", layer))
    /\ Descend
    /\ UNCHANGED <<config, chain, transport, constructed, request>>
    /\ UNCHANGED <<doVars, otherVars>>

\* TracedRoundTripper.RoundTrip (lines 113-125) and
\* ExtendedTracedRoundTripper.RoundTrip (lines 168-193), from the return of
\* the wrapped transport: the request metric, and the return.
TraceReturn ==
    /\ \/ Resuming("Trace")
       \/ Resuming("ExtendedTrace")
    /\ LET r == tracedResponse(transport[layer], layer, result.res, result.err)
       IN  /\ events' = events
                 \o <<recorded(httpRequestMetric, layer, r, result.err),
                      Returned(layer, r, result.err)>>
           /\ Ascend(r, result.err)
    /\ UNCHANGED <<config, chain, transport, constructed, request>>
    /\ UNCHANGED <<doVars, otherVars>>

\* CircuitBreakerRoundTripper.RoundTrip, lines 63-72: the breaker is asked;
\* a request it denies is counted and answered (nil, ErrCircuitOpen).
BreakerRoundTrip ==
    /\ Entering("CircuitBreaker")
    /\ \E allowed \in BOOLEAN :
         IF ~allowed
         THEN /\ events' = events
                    \o <<Ev("RoundTrip", layer), [Ev("Allow", layer) EXCEPT !.ok = FALSE]>>
                    \o breakerDenied(layer)
                    \o <<Returned(layer, NilRes, ErrCircuitOpen)>>
              /\ Ascend(NilRes, ErrCircuitOpen)
         ELSE /\ events' = events \o <<Ev("RoundTrip", layer), Ev("Allow", layer)>>
              /\ Descend
    /\ UNCHANGED <<config, chain, transport, constructed, request>>
    /\ UNCHANGED <<doVars, otherVars>>

\* CircuitBreakerRoundTripper.RoundTrip, lines 72-85: the breaker is told
\* of the outcome, and what the wrapped transport returned is returned.
BreakerReturn ==
    /\ Resuming("CircuitBreaker")
    /\ \E verdict \in BOOLEAN :
         LET accepts == IF config.CheckFunc = "DefaultCircuitBreakerCheckFunc"
                        THEN DefaultCircuitBreakerCheckFunc(result.res)
                        ELSE verdict
         IN  events' = events
                 \o breakerReport(layer, result.res, result.err, accepts)
                 \o <<Returned(layer, result.res, result.err)>>
    /\ Ascend(result.res, result.err)
    /\ UNCHANGED <<config, chain, transport, constructed, request>>
    /\ UNCHANGED <<doVars, otherVars>>

\* The transport of otelhttp.NewTransport, to its call of the wrapped
\* transport.
OpenTelemetryRoundTrip ==
    /\ Entering("OpenTelemetry")
    /\ events' = Append(events, Ev("RoundTrip", layer))
    /\ Descend
    /\ UNCHANGED <<config, chain, transport, constructed, request>>
    /\ UNCHANGED <<doVars, otherVars>>

\* The transport of otelhttp.NewTransport returns what the wrapped
\* transport did.
OpenTelemetryReturn ==
    /\ Resuming("OpenTelemetry")
    /\ events' = Append(events, Returned(layer, result.res, result.err))
    /\ Ascend(result.res, result.err)
    /\ UNCHANGED <<config, chain, transport, constructed, request>>
    /\ UNCHANGED <<doVars, otherVars>>

\* The caller reads the body of the response it was returned until Read
\* returns an error: io.EOF at the end of the body, or a failure.
ReadBody ==
    /\ phase = "returned"
    /\ result.err = NoErr
    /\ ~result.res.isNil
    /\ \E e \in ReadOutcomes :
         events' = events \o <<[Ev("Read", 0) EXCEPT !.res = result.res, !.err = e]>>
                          \o fullyRead(result.res.Body.OnErr, result.res, e)
    /\ phase' = "read"
    /\ UNCHANGED <<config, chain, transport, constructed, request, layer, result>>
    /\ UNCHANGED <<doVars, otherVars>>

RoundTripNext ==
    \/ ApplyChain
    \/ BaseRoundTrip
    \/ UserAgentRoundTrip
    \/ UserAgentReturn
    \/ CacheRoundTrip
    \/ CacheReturn
    \/ HookRoundTrip
    \/ HookReturn
    \/ TraceRoundTrip
    \/ TraceReturn
    \/ BreakerRoundTrip
    \/ BreakerReturn
    \/ OpenTelemetryRoundTrip
    \/ OpenTelemetryReturn

RoundTripSpec == RoundTripInit /\ [][RoundTripNext]_vars

\* One round trip through a chain of decorators without hooks, and the
\* caller's reading of the response body after it.
TraceInit ==
    /\ RoundTripInit
    /\ config \in PlainOptions
    /\ config.ReqHooks = <<>>
    /\ config.ResHooks = 0
    /\ config.CheckFunc = "DefaultCircuitBreakerCheckFunc"

TraceNext == RoundTripNext \/ ReadBody

TraceSpec == TraceInit /\ [][TraceNext]_vars

----------------------------------------------------------------------------
(* Vocabulary of the claims on round trips.                                *)

\* The positions of the events `ev` of layer k.
Pos(ev, k) == {p \in 1..Len(events) : events[p].ev = ev /\ events[p].layer = k}

\* The layers of the transport that are decorators of this kind.
LayersOf(kind) == {k \in 1..Len(transport) : transport[k] = kind}

\* Layer k has returned; where, and what.
HasReturned(k) == Pos("return", k) # {}
ReturnPos(k) == CHOOSE p \in Pos("return", k) : TRUE
ReturnOf(k) == events[ReturnPos(k)]

\* The events of layer k, in order.
EventsOf(k) == SelectSeq(events, LAMBDA e : e.layer = k)

\* The circuit breaker round trippers that denied the request.
Denying == {k \in LayersOf("CircuitBreaker") : \E p \in Pos("Allow", k) : ~events[p].ok}

(* C14 as stated: a CircuitBreakerRoundTripper whose breaker denied the    *)
(* request has not invoked the transport it wraps, has called neither      *)
(* callback, and has returned a nil response with ErrCircuitOpen; and the  *)
(* transport a CircuitBreakerRoundTripper wraps never returns that error.  *)
C14_Original ==
    \A k \in LayersOf("CircuitBreaker") :
        /\ k \in Denying
              => /\ Pos("RoundTrip", k + 1) = {}
                 /\ Pos("success", k) = {}
                 /\ Pos("failure", k) = {}
                 /\ HasReturned(k)
                 /\ ReturnOf(k).res = NilRes
                 /\ ReturnOf(k).err = ErrCircuitOpen
        /\ HasReturned(k + 1) => ReturnOf(k + 1).err # ErrCircuitOpen

(* C14 amended: a CircuitBreakerRoundTripper whose breaker denied the      *)
(* request has not invoked the transport it wraps, has called neither      *)
(* callback, and has returned a nil response with ErrCircuitOpen; a layer  *)
(* of the transport returns that error only when it is, or has below it, a *)
(* CircuitBreakerRoundTripper that denied the request.                     *)
C14_BreakerDenies ==
    /\ \A k \in Denying :
          /\ Pos("RoundTrip", k + 1) = {}
          /\ Pos("success", k) = {}
          /\ Pos("failure", k) = {}
          /\ HasReturned(k)
          /\ ReturnOf(k).res = NilRes
          /\ ReturnOf(k).err = ErrCircuitOpen
    /\ \A j \in 1..Len(transport) :
          (HasReturned(j) /\ ReturnOf(j).err = ErrCircuitOpen)
              => \E k \in Denying : k >= j

\* The breaker of the outermost layer denied the request, and the round
\* trip has returned.
C14_Witness ==
    /\ phase = "returned"
    /\ transport = <<"CircuitBreaker", "Base">>
    /\ Pos("Incr", 1) # {}
    /\ result = [res |-> NilRes, err |-> ErrCircuitOpen]

(* C15: a CircuitBreakerRoundTripper whose breaker allowed the request     *)
(* calls no callback before the transport it wraps has returned, and has   *)
(* called exactly one, once, by the time it returns: failure when the      *)
(* wrapped transport returned an error; otherwise the status classifier    *)
(* was asked about the response, and success was called when it accepted   *)
(* and failure when it rejected (the default one accepts a status below    *)
(* 500).                                                                   *)
C15_BreakerReports ==
    \A k \in LayersOf("CircuitBreaker") :
        \A p \in Pos("Allow", k) :
            events[p].ok
                => LET called == Pos("success", k) \cup Pos("failure", k)
                       asked == Pos("CheckFunc", k)
                   IN  /\ Cardinality(called) <= 1
                       /\ HasReturned(k) => Cardinality(called) = 1
                       /\ \A c \in called :
                            /\ HasReturned(k + 1)
                            /\ ReturnPos(k + 1) < c
                            /\ IF ReturnOf(k + 1).err # NoErr
                               THEN events[c].ev = "failure" /\ asked = {}
                               ELSE /\ Cardinality(asked) = 1
                                    /\ \A a \in asked :
                                         /\ a < c
                                         /\ events[a].res = ReturnOf(k + 1).res
                                         /\ events[c].ev =
                                              IF events[a].ok THEN "success" ELSE "failure"
                                         /\ config.CheckFunc = "DefaultCircuitBreakerCheckFunc"
                                              => events[a].ok = (events[a].res.StatusCode < 500)

C15_Witness ==
    /\ phase = "returned"
    /\ transport = <<"CircuitBreaker", "Base">>
    /\ config.CheckFunc = "DefaultCircuitBreakerCheckFunc"
    /\ result.err = NoErr
    /\ result.res.StatusCode = StatusInternalServerError
    /\ Pos("failure", 1) # {}

(* C16: when a request hook of a HookRoundTripper returned an error, the   *)
(* transport it wraps was not invoked, no later request hook and no        *)
(* response hook ran, and the HookRoundTripper has returned a nil response *)
(* with the very error that hook returned.                                 *)
C16_RequestHookError ==
    \A k \in LayersOf("Hook") :
        \A p \in Pos("RequestHook", k) :
            events[p].err # NoErr
                => /\ events[p].err = config.ReqHooks[events[p].hook]
                   /\ Pos("RoundTrip", k + 1) = {}
                   /\ \A q \in Pos("RequestHook", k) : events[q].hook <= events[p].hook
                   /\ Pos("ResponseHook", k) = {}
                   /\ HasReturned(k)
                   /\ ReturnOf(k).res = NilRes
                   /\ ReturnOf(k).err = events[p].err

C16_Witness ==
    /\ phase = "returned"
    /\ transport = <<"Hook", "Base">>
    /\ Len(config.ReqHooks) = MaxHooks
    /\ config.ReqHooks[1] = HookErrA
    /\ config.ReqHooks[MaxHooks] = HookErrB
    /\ config.ResHooks = MaxHooks
    /\ result = [res |-> NilRes, err |-> HookErrA]

(* C17: a HookRoundTripper none of whose request hooks fails has, by the   *)
(* time it returns, run every request hook once in registration order,     *)
(* then invoked the transport it wraps exactly once, then run every        *)
(* response hook once in registration order, each with the request and     *)
(* the response and error the wrapped transport returned, whether that     *)
(* error is nil or not.                                                    *)
C17_HookOrder ==
    \A k \in LayersOf("Hook") :
        (HasReturned(k) /\ \A j \in 1..Len(config.ReqHooks) : config.ReqHooks[j] = NoErr)
            => LET own == EventsOf(k)
                   n == Len(config.ReqHooks)
                   m == config.ResHooks
               IN  /\ Len(own) = n + m + 2
                   /\ own[1].ev = "RoundTrip"
                   /\ \A j \in 1..n : own[1 + j].ev = "RequestHook" /\ own[1 + j].hook = j
                   /\ \A j \in 1..m :
                        /\ own[1 + n + j].ev = "ResponseHook"
                        /\ own[1 + n + j].hook = j
                        /\ own[1 + n + j].req = request
                        /\ own[1 + n + j].res = ReturnOf(k + 1).res
                        /\ own[1 + n + j].err = ReturnOf(k + 1).err
                   /\ own[n + m + 2].ev = "return"
                   /\ Cardinality(Pos("RoundTrip", k + 1)) = 1
                   /\ \A c \in Pos("RoundTrip", k + 1) :
                        /\ \A q \in Pos("RequestHook", k) : q < c
                        /\ \A q \in Pos("ResponseHook", k) : c < ReturnPos(k + 1) /\ ReturnPos(k + 1) < q

C17_Witness ==
    /\ phase = "returned"
    /\ transport = <<"Hook", "Base">>
    /\ Len(config.ReqHooks) = MaxHooks
    /\ config.ResHooks = MaxHooks
    /\ Cardinality(Pos("RequestHook", 1)) = MaxHooks
    /\ Cardinality(Pos("ResponseHook", 1)) = MaxHooks
    /\ result = [res |-> NilRes, err |-> TransportErr]

(* C18: a hook decorator, a basic or extended tracing decorator, or a      *)
(* circuit breaker decorator that invoked the transport it wraps returns   *)
(* the status, the header, the body bytes and the error that transport     *)
(* returned.                                                               *)
C18_Transparent ==
    \A k \in LayersOf("Hook") \cup LayersOf("Trace") \cup LayersOf("ExtendedTrace")
              \cup LayersOf("CircuitBreaker") :
        (HasReturned(k) /\ Pos("RoundTrip", k + 1) # {})
            => /\ HasReturned(k + 1)
               /\ Content(ReturnOf(k).res) = Content(ReturnOf(k + 1).res)
               /\ ReturnOf(k).err = ReturnOf(k + 1).err

C18_Witness ==
    /\ phase = "returned"
    /\ transport = <<"ExtendedTrace", "CircuitBreaker", "Base">>
    /\ result.err = NoErr
    /\ result.res.StatusCode = 404
    /\ result.res.Body = [data |-> <<1, 2>>, OnErr |-> <<1>>]

\* The invocations and the returns of the layers, in order.
Invocations == SelectSeq(events, LAMBDA e : e.ev = "RoundTrip")
Returns == SelectSeq(events, LAMBDA e : e.ev = "return")

(* C19: Apply on the chain [d1, ..., dn] and the base transport T has      *)
(* built d1(d2(...dn(T))), calling the constructor of every decorator of   *)
(* the chain exactly once; on the empty chain it has returned T itself.    *)
(* The layers are invoked in the order d1, d2, ..., and a request that     *)
(* reaches T has passed d1, ..., dn in that order; the layers that were    *)
(* invoked return in the reverse order, T first and d1 last.               *)
C19_ApplyOrder ==
    phase # "Apply"
        => /\ transport = chain \o BaseTransport
           /\ chain = <<>> => transport = BaseTransport
           /\ Len(constructed) = Len(chain)
           /\ \A x \in 1..Len(chain) :
                Cardinality({p \in 1..Len(constructed) : constructed[p] = x}) = 1
           /\ \A p \in 1..Len(Invocations) :
                /\ Invocations[p].layer = p
                /\ p <= Len(chain) => transport[p] = chain[p]
                /\ p = Len(chain) + 1 => transport[p] = "Base"
           /\ phase = "returned"
                => /\ Len(Returns) = Len(Invocations)
                   /\ \A p \in 1..Len(Returns) :
                        Returns[p].layer = Len(Invocations) - p + 1

C19_Witness ==
    /\ phase = "returned"
    /\ chain = <<"Hook", "CircuitBreaker">>
    /\ constructed = <<2, 1>>
    /\ Len(Invocations) = 3
    /\ Len(Returns) = 3
    /\ result.err = NoErr
    /\ result.res.StatusCode = 200

\* The layer of the transport of the default builder that is the
\* decorator of this kind, 0 when it has none.
LayerOf(kind) == IF LayersOf(kind) = {} THEN 0 ELSE CHOOSE k \in LayersOf(kind) : TRUE

(* C20: the transport of the default builder has the layers user agent,    *)
(* cache (if enabled), hooks, tracing (basic or extended), circuit breaker *)
(* (if configured), OpenTelemetry and the base transport, in this order.   *)
(* Hence: when the breaker is asked, every request hook has run; when the  *)
(* breaker denied the request, the tracing decorator recorded the request  *)
(* with status "error" and every response hook was handed a nil response   *)
(* and ErrCircuitOpen; and when the cache served the request, no hook ran  *)
(* and the breaker was not asked.                                          *)
C20_DefaultOrder ==
    (phase # "Apply" /\ chain = roundTripper(config))
        => LET hooks == LayerOf("Hook")
               tracing == LayerOf(IF config.EnableClientTrace THEN "ExtendedTrace" ELSE "Trace")
               breaker == LayerOf("CircuitBreaker")
           IN  /\ transport =
                    <<"UserAgent">>
                    \o (IF config.Cache THEN <<"Cache">> ELSE <<>>)
                    \o <<"Hook", IF config.EnableClientTrace THEN "ExtendedTrace" ELSE "Trace">>
                    \o (IF config.CircuitBreaker THEN <<"CircuitBreaker">> ELSE <<>>)
                    \o <<"OpenTelemetry", "Base">>
               /\ \A a \in Pos("Allow", breaker) :
                    /\ Cardinality(Pos("RequestHook", hooks)) = Len(config.ReqHooks)
                    /\ \A q \in Pos("RequestHook", hooks) : q < a
                    /\ (~events[a].ok /\ phase = "returned")
                         => /\ \E t \in Pos("recordResponse", tracing) :
                                 /\ events[t].err = ErrCircuitOpen
                                 /\ events[t].status = <<"e", "r", "r", "o", "r">>
                            /\ Cardinality(Pos("ResponseHook", hooks)) = config.ResHooks
                            /\ \A q \in Pos("ResponseHook", hooks) :
                                 /\ events[q].res = NilRes
                                 /\ events[q].err = ErrCircuitOpen
               /\ \A c \in Pos("cache hit", LayerOf("Cache")) :
                    /\ Pos("RequestHook", hooks) = {}
                    /\ Pos("ResponseHook", hooks) = {}
                    /\ Pos("Allow", breaker) = {}
                    /\ Pos("RoundTrip", hooks) = {}

C20_Witness ==
    /\ phase = "returned"
    /\ chain = roundTripper(config)
    /\ config.Cache /\ config.EnableClientTrace /\ config.CircuitBreaker
    /\ Len(config.ReqHooks) = MaxHooks
    /\ config.ResHooks = MaxHooks
    /\ Cardinality(Pos("RequestHook", 3)) = MaxHooks
    /\ Cardinality(Pos("ResponseHook", 3)) = MaxHooks
    /\ \E a \in Pos("Allow", 5) : ~events[a].ok
    /\ result = [res |-> NilRes, err |-> ErrCircuitOpen]

----------------------------------------------------------------------------
(* The connection counters of a PooledTransport: goroutines dial through   *)
(* the traced dialer NewPooledFromTransport installs and close the         *)
(* connections it returned.  sync.Map.LoadOrStore, atomic.AddInt64 and     *)
(* atomic.LoadInt64 are one step each; everything else a goroutine does    *)
(* between them is local.                                                  *)

MaxDials == 2
MaxCloses == 2

Goroutines == {"g1", "g2"}
Networks == {<<"t", "c", "p">>}
Addresses == {<<"a">>, <<"b">>}

DialErr == "connection refused"

\* The hooks NewPooledFromTransport hands to NewTracedDialer: <<delta>> is
\* t.traceConn(delta), <<>> is a nil hook.
DialerTrace_CountsErrors ==
    [GotConn |-> <<1>>, ConnError |-> <<1>>, CloseConn |-> <<-1>>]

DialerTrace ==
    [GotConn |-> <<1>>, ConnError |-> <<>>, CloseConn |-> <<-1>>]

dialTraceKey(network, address) == network \o <<":">> \o address

\* sync.Map.LoadOrStore: the map afterwards.  The value it returns is the
\* one the map then holds for the key.
LoadOrStore_Store(m, key, value) ==
    [k \in DOMAIN m \cup {key} |-> IF k = key THEN value ELSE m[k]]

LoadOrStore(m, key, value) ==
    IF key \in DOMAIN m THEN m ELSE LoadOrStore_Store(m, key, value)

\* atomic.AddInt64 on the counter ptr points to.
AddInt64_Store(c, ptr, delta) == [c EXCEPT ![ptr] = delta]

AddInt64(c, ptr, delta) == [c EXCEPT ![ptr] = @ + delta]

\* What PooledTransport.Stats returns when nothing runs beside it: every
\* key of the map with the value of its counter.
Stats == [k \in DOMAIN stats |-> cells[stats[k]]]

\* A goroutine that is not inside DialContext or Close.
Idle ==
    [op |-> "none", pc |-> "idle", network |-> <<>>, address |-> <<>>,
     hook |-> <<>>, ptr |-> 0, err |-> NoErr, traced |-> 0]

PoolInit ==
    /\ NoDo
    /\ NoRoundTrip
    /\ NoBackoffFunc
    /\ NoNewRequest
    /\ NoVerdict
    /\ NoReuse
    /\ NoMetrics
    /\ NoConcurrency
    /\ NoCache
    /\ NoDrain
    /\ NoBreakerRetry
    /\ NoReads
    /\ stats = <<>>
    /\ cells = <<>>
    /\ proc = [g \in Goroutines |-> Idle]
    /\ conns = <<>>
    /\ dialed = 0
    /\ reported = <<>>
    /\ reading = <<>>

\* What a goroutine does once the hook it has to call is known: a nil hook
\* is skipped, any other one enters traceConn.
afterHook(p, hook, done) ==
    IF hook = <<>>
    THEN done
    ELSE [p EXCEPT !.pc = "LoadOrStore", !.hook = hook]

\* tracedDialer.DialContext is called.
DialContext(g) ==
    /\ proc[g].pc = "idle"
    /\ dialed < MaxDials
    /\ \E network \in Networks, address \in Addresses :
         proc' = [proc EXCEPT ![g] =
                    [Idle EXCEPT !.op = "DialContext", !.pc = "dial",
                                 !.network = network, !.address = address]]
    /\ dialed' = dialed + 1
    /\ UNCHANGED <<stats, cells, conns, reported, reading>>
    /\ UNCHANGED <<doVars, rtVars, boVars, reqVars, clVars, hdrVars,
                   metricVars, coVars, cacheVars, drainVars, brkVars, readVars>>

\* d.dial returns: on an error ConnError is called if set and the error is
\* returned, otherwise GotConn is called if set.
Dialed(g) ==
    /\ proc[g].pc = "dial"
    /\ \E e \in {NoErr, DialErr} :
         LET p == [proc[g] EXCEPT !.err = e] IN
         proc' = [proc EXCEPT ![g] =
                    IF e # NoErr
                    THEN afterHook(p, DialerTrace.ConnError, Idle)
                    ELSE afterHook(p, DialerTrace.GotConn,
                                   [p EXCEPT !.pc = "return"])]
    /\ UNCHANGED <<stats, cells, conns, dialed, reported, reading>>
    /\ UNCHANGED <<doVars, rtVars, boVars, reqVars, clVars, hdrVars,
                   metricVars, coVars, cacheVars, drainVars, brkVars, readVars>>

\* traceConn: t.stats.LoadOrStore(key, new(int64)).
traceConnLoadOrStore(g) ==
    /\ proc[g].pc = "LoadOrStore"
    /\ LET key == dialTraceKey(proc[g].network, proc[g].address)
           new == Len(cells) + 1
           m == LoadOrStore(stats, key, new)
       IN /\ stats' = m
          /\ cells' = IF m[key] = new THEN Append(cells, 0) ELSE cells
          /\ proc' = [proc EXCEPT ![g].pc = "AddInt64", ![g].ptr = m[key]]
    /\ UNCHANGED <<conns, dialed, reported, reading>>
    /\ UNCHANGED <<doVars, rtVars, boVars, reqVars, clVars, hdrVars,
                   metricVars, coVars, cacheVars, drainVars, brkVars, readVars>>

\* traceConn: atomic.AddInt64(value, delta); then the hook returns, and
\* with it Close, or DialContext on its error path.
traceConnAddInt64(g) ==
    /\ proc[g].pc = "AddInt64"
    /\ cells' = AddInt64(cells, proc[g].ptr, proc[g].hook[1])
    /\ proc' = [proc EXCEPT ![g] =
                  IF proc[g].op = "DialContext" /\ proc[g].err = NoErr
                  THEN [proc[g] EXCEPT !.pc = "return", !.traced = @ + 1]
                  ELSE Idle]
    /\ UNCHANGED <<stats, conns, dialed, reported, reading>>
    /\ UNCHANGED <<doVars, rtVars, boVars, reqVars, clVars, hdrVars,
                   metricVars, coVars, cacheVars, drainVars, brkVars, readVars>>

\* DialContext returns the tracedConn to its caller.
DialReturn(g) ==
    /\ proc[g].pc = "return"
    /\ conns' = Append(conns, [network |-> proc[g].network,
                               address |-> proc[g].address, closes |-> 0])
    /\ proc' = [proc EXCEPT ![g] = Idle]
    /\ UNCHANGED <<stats, cells, dialed, reported, reading>>
    /\ UNCHANGED <<doVars, rtVars, boVars, reqVars, clVars, hdrVars,
                   metricVars, coVars, cacheVars, drainVars, brkVars, readVars>>

\* tracedConn.Close: c.Conn.Close() is called, then the deferred closeFunc
\* calls CloseConn if set.
Close(g) ==
    /\ proc[g].pc = "idle"
    /\ \E c \in 1..Len(conns) :
         /\ conns[c].closes < MaxCloses
         /\ conns' = [conns EXCEPT ![c].closes = @ + 1]
         /\ proc' = [proc EXCEPT ![g] =
                       afterHook([Idle EXCEPT !.op = "Close",
                                              !.network = conns[c].network,
                                              !.address = conns[c].address],
                                 DialerTrace.CloseConn, Idle)]
    /\ UNCHANGED <<stats, cells, dialed, reported, reading>>
    /\ UNCHANGED <<doVars, rtVars, boVars, reqVars, clVars, hdrVars,
                   metricVars, coVars, cacheVars, drainVars, brkVars, readVars>>

\* Stats() is called, by a goroutine of its own, at any moment of the run
\* (one call that reports something is followed here): t.stats.Range starts.
\* It visits every key the map holds now; a key stored while it runs may be
\* visited or not.
StatsRange ==
    /\ reading = <<>>
    /\ reported = <<>>
    /\ reading' = [must |-> DOMAIN stats, out |-> <<>>]
    /\ UNCHANGED <<stats, cells, proc, conns, dialed, reported>>
    /\ UNCHANGED <<doVars, rtVars, boVars, reqVars, clVars, hdrVars,
                   metricVars, coVars, cacheVars, drainVars, brkVars, readVars>>

\* Range visits one more key: atomic.LoadInt64 reads its counter as it is
\* now.
StatsLoadInt64 ==
    /\ reading # <<>>
    /\ \E key \in DOMAIN stats \ DOMAIN reading.out :
         reading' = [reading EXCEPT !.out =
                       [k \in DOMAIN reading.out \cup {key} |->
                          IF k = key THEN cells[stats[key]] ELSE reading.out[k]]]
    /\ UNCHANGED <<stats, cells, proc, conns, dialed, reported>>
    /\ UNCHANGED <<doVars, rtVars, boVars, reqVars, clVars, hdrVars,
                   metricVars, coVars, cacheVars, drainVars, brkVars, readVars>>

\* Range is over and Stats() returns the values it loaded.
StatsReturn ==
    /\ reading # <<>>
    /\ reading.must \subseteq DOMAIN reading.out
    /\ reported' = reading.out
    /\ reading' = <<>>
    /\ UNCHANGED <<stats, cells, proc, conns, dialed>>
    /\ UNCHANGED <<doVars, rtVars, boVars, reqVars, clVars, hdrVars,
                   metricVars, coVars, cacheVars, drainVars, brkVars, readVars>>

PoolNext ==
    \/ \E g \in Goroutines : DialContext(g)
    \/ \E g \in Goroutines : Dialed(g)
    \/ \E g \in Goroutines : traceConnLoadOrStore(g)
    \/ \E g \in Goroutines : traceConnAddInt64(g)
    \/ \E g \in Goroutines : DialReturn(g)
    \/ \E g \in Goroutines : Close(g)
    \/ StatsRange
    \/ StatsLoadInt64
    \/ StatsReturn

PoolSpec == PoolInit /\ [][PoolNext]_vars

(* Vocabulary of the claims about the counters. *)

Keys == {dialTraceKey(n, a) : n \in Networks, a \in Addresses}

\* What Stats() reports for a key; Go reads 0 from a map for a missing key.
Count(k) == IF k \in DOMAIN Stats THEN Stats[k] ELSE 0

KeyOf(p) == dialTraceKey(p.network, p.address)

\* The connections DialContext returned for a key.
ConnsOf(k) == {c \in 1..Len(conns) : KeyOf(conns[c]) = k}

\* No goroutine is inside DialContext or Close.
Quiescent == \A g \in Goroutines : proc[g] = Idle

----------------------------------------------------------------------------
(* Claims about the connection counters. *)

\* C21: a dial through the PooledTransport changes the counters if and only
\* if it succeeds.  No step of a DialContext call changes the counter of a
\* key other than "network:address"; its AddInt64 step raises the counter
\* of that key by exactly 1 and its other steps leave it alone; only a dial
\* that succeeded takes that step; and a call that hands a connection to its
\* caller has taken it before, exactly once.
C21_DialEffect ==
    [][\A g \in Goroutines :
         (proc[g].op = "DialContext" /\ proc'[g] # proc[g]) =>
            /\ \A k \in Keys :
                  Count(k)' =
                    Count(k) + (IF k = KeyOf(proc[g]) /\ proc[g].pc = "AddInt64"
                                THEN 1 ELSE 0)
            /\ proc[g].pc \in {"LoadOrStore", "AddInt64"} =>
                  proc[g].err = NoErr
            /\ Len(conns') > Len(conns) => proc[g].traced = 1]_vars

\* One dial failed and one succeeded, and the caller has its connection.
C21_Witness ==
    /\ Quiescent
    /\ dialed = 2
    /\ Len(conns) = 1
    /\ Count(KeyOf(conns[1])) = 1

\* C22: each connection decrements the counter of its key exactly once,
\* however often Close is called on it, so that whenever no dial or close is
\* under way every value Stats() reports is non-negative and is the number
\* of connections of that key that were opened and not yet closed.
C22_StatsCountOpen ==
    Quiescent =>
       \A k \in Keys :
          /\ Count(k) >= 0
          /\ Count(k) = Cardinality({c \in ConnsOf(k) : conns[c].closes = 0})

\* C23: once every connection opened for an address has been closed, Stats()
\* reports the value 0 under the key of that address.
C23_BalancedAtZero ==
    (Quiescent /\ \A c \in 1..Len(conns) : conns[c].closes = 1) =>
       \A k \in Keys :
          ConnsOf(k) # {} => (k \in DOMAIN Stats /\ Stats[k] = 0)

\* Two connections to one address were opened and closed, and Stats() was
\* called afterwards.
C23_Witness ==
    /\ Quiescent
    /\ \A c \in 1..Len(conns) : conns[c].closes = 1
    /\ \E k \in Keys : Cardinality(ConnsOf(k)) = 2 /\ reported = Stats
                       /\ k \in DOMAIN reported /\ reported[k] = 0

\* The dials of a key whose AddInt64 has been executed, and the Close calls
\* on its connections whose AddInt64 has been executed.
DialsCounted(k) ==
    Cardinality(ConnsOf(k))
      + Cardinality({g \in Goroutines : /\ proc[g].op = "DialContext"
                                        /\ proc[g].pc = "return"
                                        /\ KeyOf(proc[g]) = k})

ClosesCounted(k) ==
    Cardinality({<<c, n>> \in ConnsOf(k) \X (1..MaxCloses) :
                   n <= conns[c].closes})
      - Cardinality({g \in Goroutines : /\ proc[g].op = "Close"
                                        /\ proc[g].pc # "idle"
                                        /\ KeyOf(proc[g]) = k})

\* C24: under every interleaving of dials and closes no update is lost: the
\* counter of each key is the number of successful dials counted so far
\* minus the number of close events counted so far, hence their difference
\* once all have completed; and Stats() can always be called and can always
\* take its next step, and never keeps a dial or a close from taking its
\* next step.
C24_NoLostUpdate ==
    /\ \A k \in Keys : Count(k) = DialsCounted(k) - ClosesCounted(k)
    /\ (reading = <<>> /\ reported = <<>>) => ENABLED StatsRange
    /\ reading # <<>> => (ENABLED StatsLoadInt64 \/ ENABLED StatsReturn)
    /\ \A g \in Goroutines :
          /\ proc[g].pc = "LoadOrStore" => ENABLED traceConnLoadOrStore(g)
          /\ proc[g].pc = "AddInt64" => ENABLED traceConnAddInt64(g)

\* The first two dials of a key raced to create its counter: both are past
\* LoadOrStore, with the same counter in hand, and neither has added yet.
C24_Witness ==
    \E g, h \in Goroutines :
       /\ g # h
       /\ proc[g].op = "DialContext" /\ proc[h].op = "DialContext"
       /\ proc[g].pc = "AddInt64" /\ proc[h].pc = "AddInt64"
       /\ KeyOf(proc[g]) = KeyOf(proc[h])
       /\ proc[g].ptr = proc[h].ptr
       /\ ConnsOf(KeyOf(proc[g])) = {}
       /\ dialed = 2

----------------------------------------------------------------------------
(* ExponentialBackoff.  It computes in float64 and converts to and from    *)
(* time.Duration, an int64 count of nanoseconds.  Numbers are written in   *)
(* binary here: a natural number is the sequence of its bits, the least    *)
(* significant one first and the last one 1 (zero is the empty sequence);  *)
(* an integer, and a float64 that holds an integer, is a sign and a        *)
(* magnitude.                                                              *)

MaxAttempt == 40

\* The bits of the significand of a float64, and of the magnitude of an int64.
SignificandBits == 53
Int64Bits == 63

RECURSIVE Bits(_)
Bits(n) == IF n = 0 THEN <<>> ELSE <<n % 2>> \o Bits(n \div 2)

\* b * 2^k.
ShiftLeft(b, k) == IF b = <<>> THEN <<>> ELSE [j \in 1..k |-> 0] \o b

\* b + 1.
Inc(b) ==
    LET z == CHOOSE j \in 1..(Len(b) + 1) :
                 /\ j = Len(b) + 1 \/ b[j] = 0
                 /\ \A h \in 1..(j - 1) : b[h] = 1
    IN [j \in 1..(IF z > Len(b) THEN z ELSE Len(b)) |->
          IF j < z THEN 0 ELSE IF j = z THEN 1 ELSE b[j]]

NatLess(x, y) ==
    \/ Len(x) < Len(y)
    \/ /\ Len(x) = Len(y)
       /\ \E k \in 1..Len(x) :
             x[k] < y[k] /\ \A j \in (k + 1)..Len(x) : x[j] = y[j]

Number(neg, mag) == [neg |-> neg /\ mag # <<>>, mag |-> mag]

\* a < b.
Less(a, b) ==
    IF a.neg # b.neg THEN a.neg
    ELSE IF a.neg THEN NatLess(b.mag, a.mag) ELSE NatLess(a.mag, b.mag)

MaxInt64 == Number(FALSE, [j \in 1..Int64Bits |-> 1])
MinInt64 == Number(TRUE, ShiftLeft(<<1>>, Int64Bits))

\* The nearest natural number a float64 can hold, ties to the even one.
Nearest(b) ==
    IF Len(b) <= SignificandBits THEN b
    ELSE LET d == Len(b) - SignificandBits
             kept == SubSeq(b, d + 1, Len(b))
             up == /\ b[d] = 1
                   /\ kept[1] = 1 \/ \E j \in 1..(d - 1) : b[j] = 1
         IN ShiftLeft(IF up THEN Inc(kept) ELSE kept, d)

\* float64(d) of a time.Duration.
float64(d) == Number(d.neg, Nearest(d.mag))

\* math.Pow(2, float64(attemptNum)) * f: exact, the exponent stays far
\* below the largest one of a float64.
Pow(f, attemptNum) == Number(f.neg, ShiftLeft(f.mag, attemptNum))

\* time.Duration(f) of a float64: the integer itself when an int64 can hold
\* it; what the conversion gives otherwise depends on the implementation.
Duration(f, outOfRange) ==
    IF Len(f.mag) <= Int64Bits \/ f = MinInt64 THEN f ELSE outOfRange

\* What the conversion of an out-of-range float64 gives: the integer
\* indefinite value on amd64, the saturated value on arm64.
OutOfRange == {MinInt64, MaxInt64}

\* The BackoffFunc of ExponentialBackoff(min, max), applied to attemptNum.
ExponentialBackoff(min, max, attemptNum, outOfRange) ==
    LET mult == Pow(float64(min), attemptNum)
        sleep == Duration(mult, outOfRange)
    IN IF float64(sleep) # mult \/ Less(max, sleep) THEN max ELSE sleep

Millisecond == Number(FALSE, Bits(1000000))
Second == Number(FALSE, Bits(1000000000))

\* The durations a BackoffFunc is built with: none is negative.
Mins ==
    {Number(FALSE, <<>>), Millisecond, Second,
     Number(FALSE, Inc(ShiftLeft(<<1>>, SignificandBits))),
     Number(FALSE, ShiftLeft(<<1>>, Int64Bits - 1))}

Maxs == {Millisecond, Pow(Second, 6), MaxInt64}

BackoffInit ==
    /\ NoDo
    /\ NoRoundTrip
    /\ NoPool
    /\ NoNewRequest
    /\ NoVerdict
    /\ NoReuse
    /\ NoMetrics
    /\ NoConcurrency
    /\ NoCache
    /\ NoDrain
    /\ NoBreakerRetry
    /\ NoReads
    /\ boMin \in Mins
    /\ boMax \in Maxs
    /\ slept = <<>>

\* The BackoffFunc is called with the next attempt number, as Do calls it.
CallBackoffFunc ==
    /\ Len(slept) <= MaxAttempt
    /\ \E o \in OutOfRange :
         slept' = Append(slept, ExponentialBackoff(boMin, boMax, Len(slept), o))
    /\ UNCHANGED <<boMin, boMax>>
    /\ UNCHANGED <<doVars, rtVars, poolVars, reqVars, clVars, hdrVars,
                   metricVars, coVars, cacheVars, drainVars, brkVars, readVars>>

BackoffNext == CallBackoffFunc

BackoffSpec == BackoffInit /\ [][BackoffNext]_vars

\* min * 2^attempt, computed exactly.
Product(min, attempt) == Number(min.neg, ShiftLeft(min.mag, attempt))

\* An int64 can hold the number.
Representable(n) == ~Less(MaxInt64, n) /\ ~Less(n, MinInt64)

\* C25: the BackoffFunc of ExponentialBackoff(min, max) returns
\* min * 2^attempt while an int64 can hold that value and it is at most max,
\* and max otherwise; it never decreases from one attempt to a later one and
\* never exceeds max.
C25_Exponential ==
    \A k \in 1..Len(slept) :
       /\ slept[k] = IF /\ Representable(Product(boMin, k - 1))
                        /\ ~Less(boMax, Product(boMin, k - 1))
                     THEN Product(boMin, k - 1)
                     ELSE boMax
       /\ ~Less(boMax, slept[k])
       /\ \A j \in 1..(k - 1) : ~Less(slept[k], slept[j])

\* C25, as far as it holds: for every min >= 0 and every max the values
\* never decrease and never exceed max, and they are min * 2^attempt, or
\* max, whenever a float64 holds min exactly.
C25_ExactWhenMinFits ==
    \A k \in 1..Len(slept) :
       /\ float64(boMin) = boMin =>
            slept[k] = IF /\ Representable(Product(boMin, k - 1))
                          /\ ~Less(boMax, Product(boMin, k - 1))
                       THEN Product(boMin, k - 1)
                       ELSE boMax
       /\ ~Less(boMax, slept[k])
       /\ \A j \in 1..(k - 1) : ~Less(slept[k], slept[j])

\* The multiplication overflowed the int64: one second, doubled until an
\* int64 cannot hold the product, under the largest max.
C25_Witness ==
    /\ boMin = Second
    /\ boMax = MaxInt64
    /\ slept # <<>>
    /\ ~Representable(Product(boMin, Len(slept) - 1))
    /\ slept[Len(slept)] = MaxInt64
    /\ slept[1] = Second

----------------------------------------------------------------------------
(* NewRequest over every body representation.  A rawBody is its dynamic    *)
(* type, the bytes behind it, how many of them were read before it was     *)
(* handed over, whether the reader (or the reader the function returns)    *)
(* has a Len method, and the error its function, its Seek or its Read      *)
(* returns.                                                                *)

MaxBodyLen == 2
MaxGetBody == 2

ErrCannotHandle == "cannot handle type"

FuncTypes == {"ReaderFunc", "func() (io.Reader, error)"}
BodyTypes ==
    FuncTypes \cup {"[]byte", "*bytes.Buffer", "*bytes.Reader", "io.ReadSeeker",
                    "io.Reader", "string"}

BodyBytes == UNION {[1..n -> {"a", "b"}] : n \in 0..MaxBodyLen}

RawBodies ==
    {b \in [type : BodyTypes, bytes : BodyBytes, off : 0..MaxBodyLen,
            lenReader : BOOLEAN, err : {NoErr, BodyErr}] :
        /\ b.off <= Len(b.bytes)
        /\ b.off > 0 =>
             b.type \in {"*bytes.Buffer", "*bytes.Reader", "io.ReadSeeker",
                         "io.Reader"}
        /\ b.lenReader = (b.type \in {"*bytes.Buffer", "*bytes.Reader"})
             \/ b.type \in FuncTypes \cup {"io.ReadSeeker", "io.Reader"}
        /\ b.err # NoErr =>
             b.type \in FuncTypes \cup {"io.ReadSeeker", "io.Reader"}}

\* The bytes a reader has not yet delivered: Len() is their number.
Unread(b) == SubSeq(b.bytes, b.off + 1, Len(b.bytes))

\* A ReaderFunc is the closure the switch built: what it does and the
\* bytes it captured.
NilReaderFunc == [kind |-> "nil", buf |-> <<>>]

\* getBodyReaderAndContentLength(rawBody).
getBodyReaderAndContentLength(body) ==
    LET fail(e) == [bodyReader |-> NilReaderFunc, contentLength |-> 0, err |-> e]
        ok(kind, buf, n) ==
            [bodyReader |-> [kind |-> kind, buf |-> buf], contentLength |-> n,
             err |-> NoErr]
    IN  CASE body.type \in FuncTypes ->
               IF body.err # NoErr THEN fail(body.err)
               ELSE ok("body", body.bytes,
                       IF body.lenReader THEN Len(body.bytes) ELSE 0)
          [] body.type = "[]byte" ->
               ok("bytes.NewReader", body.bytes, Len(body.bytes))
          [] body.type = "*bytes.Buffer" ->
               ok("buf.Bytes", <<>>, Len(Unread(body)))
          [] body.type = "*bytes.Reader" ->
               ok("snapshot", Unread(body), Len(Unread(body)))
          [] body.type = "io.ReadSeeker" ->
               ok("raw.Seek", <<>>,
                  IF body.lenReader THEN Len(Unread(body)) ELSE 0)
          [] body.type = "io.Reader" ->
               IF body.err # NoErr THEN fail(body.err)
               ELSE IF Unread(body) = <<>> THEN ok("http.NoBody", <<>>, 0)
               ELSE ok("bytes.NewReader", Unread(body), Len(Unread(body)))
          [] OTHER -> fail(ErrCannotHandle)

\* The rawBody after getBodyReaderAndContentLength: io.ReadAll has read an
\* io.Reader to its end, or up to its error.
afterSwitch(body) ==
    IF body.type = "io.Reader" /\ body.err = NoErr
    THEN [body EXCEPT !.off = Len(body.bytes)]
    ELSE body

\* A call of the ReaderFunc f: the bytes its reader delivers when read to
\* the end, its error, and the rawBody afterwards.
readerFunc(f, body) ==
    CASE f.kind = "buf.Bytes" ->
           [bytes |-> Unread(body), err |-> NoErr, body |-> body]
      [] f.kind = "raw.Seek" ->
           [bytes |-> body.bytes, err |-> body.err,
            body |-> [body EXCEPT !.off = 0]]
      [] f.kind = "body" ->
           [bytes |-> f.buf, err |-> body.err, body |-> body]
      [] OTHER ->
           [bytes |-> f.buf, err |-> NoErr, body |-> body]

\* The request NewRequest returns, and no request.
NilRequest ==
    [isNil |-> TRUE, GetBody |-> NilReaderFunc, ContentLength |-> 0]

\* NewRequest(ctx, method, url, rawBody) for a non-nil rawBody: the request,
\* the error, and the rawBody afterwards.
NewRequestOf(body) ==
    LET got == getBodyReaderAndContentLength(body)
        first == readerFunc(got.bodyReader, afterSwitch(body))
    IN  IF got.err # NoErr
        THEN [req |-> NilRequest, err |-> got.err, body |-> afterSwitch(body)]
        ELSE IF first.err # NoErr
        THEN [req |-> NilRequest, err |-> first.err, body |-> first.body]
        ELSE [req |-> [isNil |-> FALSE, GetBody |-> got.bodyReader,
                       ContentLength |-> got.contentLength],
              err |-> NoErr, body |-> first.body]

NotBuilt == [req |-> NilRequest, err |-> NoErr, done |-> FALSE]

RequestInit ==
    /\ NoDo
    /\ NoRoundTrip
    /\ NoPool
    /\ NoBackoffFunc
    /\ NoVerdict
    /\ NoReuse
    /\ NoMetrics
    /\ NoConcurrency
    /\ NoCache
    /\ NoDrain
    /\ NoBreakerRetry
    /\ NoReads
    /\ rawBody \in RawBodies
    /\ newReq = NotBuilt
    /\ bodies = <<>>

\* The caller builds the request.
CallNewRequest ==
    /\ ~newReq.done
    /\ LET r == NewRequestOf(rawBody)
       IN /\ newReq' = [req |-> r.req, err |-> r.err, done |-> TRUE]
          /\ rawBody' = r.body
    /\ UNCHANGED bodies
    /\ UNCHANGED <<doVars, rtVars, poolVars, boVars, clVars, hdrVars,
                   metricVars, coVars, cacheVars, drainVars, brkVars, readVars>>

\* req.GetBody() is called and the reader it returns is read to its end.
CallGetBody ==
    /\ newReq.done
    /\ ~newReq.req.isNil
    /\ Len(bodies) < MaxGetBody
    /\ LET r == readerFunc(newReq.req.GetBody, rawBody)
       IN /\ bodies' = Append(bodies, r.bytes)
          /\ rawBody' = [r.body EXCEPT !.off =
                           IF newReq.req.GetBody.kind = "raw.Seek"
                           THEN Len(r.body.bytes) ELSE @]
    /\ UNCHANGED newReq
    /\ UNCHANGED <<doVars, rtVars, poolVars, boVars, clVars, hdrVars,
                   metricVars, coVars, cacheVars, drainVars, brkVars, readVars>>

RequestNext == CallNewRequest \/ CallGetBody

RequestSpec == RequestInit /\ [][RequestNext]_vars

\* C26: for every supported body representation NewRequest returns a request
\* whose GetBody yields, call after call, a reader that produces the same
\* byte sequence, and whose ContentLength is the length of that sequence; an
\* unsupported type yields an error and no request.
C26_Replayable ==
    newReq.done =>
       /\ rawBody.type = "string" =>
             newReq.err = ErrCannotHandle /\ newReq.req.isNil
       /\ ~newReq.req.isNil =>
             \A k \in 1..Len(bodies) :
                /\ bodies[k] = bodies[1]
                /\ newReq.req.ContentLength = Len(bodies[k])

\* C26, as far as it holds: every GetBody call yields the same bytes, a
\* request is returned exactly when no error is, an unsupported type yields
\* an error, and ContentLength is the number of bytes whenever the body is
\* held in memory or comes from a function whose reader has a Len method.
C26_SameBytesEachCall ==
    newReq.done =>
       /\ rawBody.type = "string" =>
             newReq.err = ErrCannotHandle /\ newReq.req.isNil
       /\ newReq.req.isNil = (newReq.err # NoErr)
       /\ ~newReq.req.isNil =>
             \A k \in 1..Len(bodies) :
                /\ bodies[k] = bodies[1]
                /\ (/\ rawBody.type \in FuncTypes => rawBody.lenReader
                    /\ rawBody.type # "io.ReadSeeker")
                   => newReq.req.ContentLength = Len(bodies[k])

\* GetBody of a request newReq from a half-read *bytes.Buffer was called
\* twice, and both readers were read to their end.
C26_Witness ==
    /\ newReq.done
    /\ ~newReq.req.isNil
    /\ rawBody.type = "*bytes.Buffer"
    /\ rawBody.off = 1
    /\ Len(bodies) = MaxGetBody
    /\ Len(bodies[1]) = MaxBodyLen - 1
    /\ newReq.req.ContentLength = MaxBodyLen - 1

----------------------------------------------------------------------------
(* Claims about the metrics of the tracing decorators. *)

\* The three decimal digits of a status code.
StatusDigits(code) ==
    <<Digits[(code \div 100) + 1], Digits[((code \div 10) % 10) + 1],
      Digits[(code % 10) + 1]>>

\* The request metrics layer k recorded.
RequestMetrics(k) ==
    {p \in Pos("recordResponse", k) : events[p].metric = httpRequestMetric}

\* The response_fully_read metrics layer k recorded.
FullyReadMetrics(k) ==
    {p \in Pos("recordResponse", k) :
        events[p].metric = httpResponseFullyReadTimingMetric}

\* C27: a round trip of the basic or of the extended tracing decorator
\* records no request metric before the transport it wraps has returned and
\* exactly one by the time it returns, tagged by what the wrapped transport
\* returned: status timeout for a timeout error, status error for any other
\* error, and without error the decimal status code with the class
\* <code div 100>xx.
C27_RequestMetric ==
    \A k \in LayersOf("Trace") \cup LayersOf("ExtendedTrace") :
        /\ ~HasReturned(k + 1) => RequestMetrics(k) = {}
        /\ HasReturned(k) =>
             /\ Cardinality(RequestMetrics(k)) = 1
             /\ \A p \in RequestMetrics(k) :
                  LET below == ReturnOf(k + 1) IN
                  /\ ReturnPos(k + 1) < p
                  /\ p < ReturnPos(k)
                  /\ below.err = TimeoutErr =>
                        events[p].status = <<"t", "i", "m", "e", "o", "u", "t">>
                  /\ below.err \notin {NoErr, TimeoutErr} =>
                        events[p].status = <<"e", "r", "r", "o", "r">>
                  /\ below.err = NoErr =>
                        /\ events[p].status = StatusDigits(below.res.StatusCode)
                        /\ events[p].statusClass =
                             <<Digits[(below.res.StatusCode \div 100) + 1], "x", "x">>

\* A basic tracing decorator around a base transport that timed out has
\* returned.
C27_Witness ==
    /\ phase = "returned"
    /\ transport = <<"Trace", "Base">>
    /\ result.err = TimeoutErr
    /\ \E p \in RequestMetrics(1) :
          events[p].status = <<"t", "i", "m", "e", "o", "u", "t">>

\* C28: when the caller of an extended tracing decorator reads the body of
\* the response to its end, the decorator records the response_fully_read
\* metric with the status code of the response as its outcome; when the
\* read fails it records the metric with the outcome timeout for a timeout
\* and error for any other failure.
C28_FullyRead ==
    \A p \in Pos("Read", 0) :
       \A k \in LayersOf("ExtendedTrace") :
          (HasReturned(k) /\ ReturnOf(k).err = NoErr) =>
             /\ FullyReadMetrics(k) # {}
             /\ \A t \in FullyReadMetrics(k) :
                  /\ t > p
                  /\ events[p].err = EOF =>
                        /\ events[t].status = StatusDigits(ReturnOf(k).res.StatusCode)
                        /\ events[t].statusClass =
                             <<Digits[(ReturnOf(k).res.StatusCode \div 100) + 1],
                               "x", "x">>
                  /\ events[p].err = TimeoutErr =>
                        events[t].status = <<"t", "i", "m", "e", "o", "u", "t">>
                  /\ events[p].err = ReadErr =>
                        events[t].status = <<"e", "r", "r", "o", "r">>

\* The body of a 404 response that came through an extended tracing
\* decorator was read to its end.
C28_Witness ==
    /\ phase = "read"
    /\ transport = <<"ExtendedTrace", "Base">>
    /\ result.res.StatusCode = 404
    /\ \E p \in Pos("Read", 0) : events[p].err = EOF
    /\ \E t \in FullyReadMetrics(1) : events[t].status = <<"4", "0", "4">>

----------------------------------------------------------------------------
(* The default status classifier of the circuit breaker and the default    *)
(* retry policy, asked about the same response.                            *)

MaxStatus == 599

\* The status codes a response can carry: 0 and the negative ones are
\* invalid, and neither function rejects them.
StatusCodes == (0 - 1)..MaxStatus

ClassifyInit ==
    /\ NoDo
    /\ NoRoundTrip
    /\ NoPool
    /\ NoBackoffFunc
    /\ NoNewRequest
    /\ NoReuse
    /\ NoMetrics
    /\ NoConcurrency
    /\ NoCache
    /\ NoDrain
    /\ NoBreakerRetry
    /\ NoReads
    /\ classified \in {Res(st, {}, <<>>) : st \in StatusCodes}
    /\ answers = [done |-> FALSE, success |-> FALSE, retry |-> FALSE]

\* The response is handed to DefaultCircuitBreakerCheckFunc() and, with a
\* live context and no error, to ServerErrorsRetryPolicy().
Classify ==
    /\ ~answers.done
    /\ answers' = [done |-> TRUE,
                   success |-> DefaultCircuitBreakerCheckFunc(classified),
                   retry |-> ServerErrorsRetryPolicy(NoErr, classified, NoErr)[1]]
    /\ UNCHANGED classified
    /\ UNCHANGED <<doVars, rtVars, poolVars, boVars, reqVars, hdrVars,
                   metricVars, coVars, cacheVars, drainVars, brkVars, readVars>>

ClassifyNext == Classify

ClassifySpec == ClassifyInit /\ [][ClassifyNext]_vars

\* C29: on the same response, a status below 500 is a breaker success and,
\* unless it is 0, is not retried; a status of 500 or more other than 501 is
\* a breaker failure and is retried; 501 is a breaker failure and is not
\* retried; 0 is a breaker success and is retried.
C29_ClassifierVsPolicy ==
    answers.done =>
       LET st == classified.StatusCode IN
       /\ st < 500 => answers.success
       /\ (st < 500 /\ st # 0) => ~answers.retry
       /\ (st >= 500 /\ st # 501) => (~answers.success /\ answers.retry)
       /\ st = 501 => (~answers.success /\ ~answers.retry)
       /\ st = 0 => (answers.success /\ answers.retry)

\* A 501 was classified: a failure for the breaker that is not retried.
C29_Witness ==
    /\ answers.done
    /\ classified.StatusCode = 501
    /\ ~answers.success
    /\ ~answers.retry


(***************************************************************************)
(* One request value passed to RetryableClient.Do more than once, through  *)
(* a client built by NewRetryable.  req.WithContext makes a shallow copy,  *)
(* so every request of every attempt refers to the Header map of the       *)
(* caller's request; no decorator of the chain and no step of              *)
(* http.Client.Do copies the map before the base transport sees it.  An    *)
(* http.Header is a function from canonical names to lists of values; a    *)
(* request refers to its map by the index of the map in `headers`.         *)
(***************************************************************************)

\* How many times the caller passes the same request value to Do.
MaxDoCalls == 3

\* textproto.CanonicalMIMEHeaderKey on the names used here.
CanonicalMIMEHeaderKey(name) == IF name = "x-retry" THEN "X-Retry" ELSE name

\* http.Header.Set(key, value) on the map h.
Set(h, key, value) ==
    [k \in DOMAIN h \cup {CanonicalMIMEHeaderKey(key)} |->
        IF k = CanonicalMIMEHeaderKey(key) THEN <<value>> ELSE h[k]]

\* http.Header.Get(key) on the map h: "" when the name is absent.
Get(h, key) ==
    IF CanonicalMIMEHeaderKey(key) \in DOMAIN h /\ Len(h[CanonicalMIMEHeaderKey(key)]) > 0
    THEN h[CanonicalMIMEHeaderKey(key)][1]
    ELSE <<>>

\* RetryHeaderHook(req): the maps after the hook ran on the request r.
RetryHeaderHook(r, hs) ==
    IF RetryCount(r) > 0
    THEN [hs EXCEPT ![r.Header] = Set(@, "x-retry", Itoa(RetryCount(r)))]
    ELSE hs

\* (ua *UserAgentRoundTripper) RoundTrip(req), the outermost layer of the
\* transport of NewRetryable: the maps after it ran on the request r.  The
\* value it sets is "httpclient-go/" followed by the version.
setUserAgent(r, hs) ==
    IF Get(hs[r.Header], "User-Agent") = <<>>
    THEN [hs EXCEPT ![r.Header] = Set(@, "User-Agent", <<"httpclient-go/version">>)]
    ELSE hs

\* The headers the caller may have put on the request.
CallerHeaders ==
    {<<>>, [k \in {"Accept"} |-> <<<<"*", "/", "*">>>>],
     [k \in {"User-Agent"} |-> <<<<"c", "u", "r", "l">>>>]}

\* Line 64, c.Client.Do over the transport of NewRetryable: what it returns
\* when the transport returned `out`.  http.Client drops a response that
\* comes with an error.
ClientDo(out) ==
    IF out.err # NoErr THEN [res |-> NilRes, err |-> out.err] ELSE out

\* Lines 54-55: the locals resp and err of a Do call that has sent nothing.
NotSent == [res |-> NilRes, err |-> NoErr]

\* The caller built a request without a body and a client with NewRetryable.
ReuseInit ==
    /\ NoDo
    /\ NoRoundTrip
    /\ NoPool
    /\ NoBackoffFunc
    /\ NoNewRequest
    /\ NoVerdict
    /\ NoMetrics
    /\ NoConcurrency
    /\ NoCache
    /\ NoDrain
    /\ NoBreakerRetry
    /\ NoReads
    /\ \E h \in CallerHeaders : headers = <<h>>
    /\ callerReq = [GetBody |-> "nil", Body |-> NoBody, retries |-> <<>>,
                    Header |-> 1]
    /\ doReq = <<>>
    /\ retryNo = 0
    /\ doPc = "idle"
    /\ doLast = NotSent
    /\ returned = 0
    /\ retryMax \in 0..MaxRetryMax
    /\ sent = <<>>

\* Lines 53-57: the caller calls Do with its request.
DoAgain ==
    /\ doPc = "idle"
    /\ returned < MaxDoCalls
    /\ doPc' = "prepare"
    /\ doReq' = callerReq
    /\ retryNo' = 0
    /\ doLast' = NotSent
    /\ UNCHANGED <<headers, callerReq, returned, retryMax, sent>>
    /\ UNCHANGED <<doVars, rtVars, poolVars, boVars, reqVars, clVars,
                   metricVars, coVars, cacheVars, drainVars, brkVars, readVars>>

\* Lines 58-64, down to the base transport: requestFromInternal, then
\* c.Client.Do, in which the user agent layer and the request hooks write
\* the Header map before the request leaves.
ReuseSend ==
    /\ doPc = "prepare"
    /\ LET r2 == requestFromInternal(doReq, retryNo, <<>>, FALSE).req
           after == RetryHeaderHook(r2, setUserAgent(r2, headers))
       IN  /\ doReq' = r2
           /\ headers' = after
           /\ sent' = Append(sent, [call |-> returned + 1, i |-> retryNo,
                                    RetryCount |-> RetryCount(r2),
                                    Header |-> after[r2.Header]])
    /\ doPc' = "inflight"
    /\ UNCHANGED <<callerReq, retryNo, doLast, returned, retryMax>>
    /\ UNCHANGED <<doVars, rtVars, poolVars, boVars, reqVars, clVars,
                   metricVars, coVars, cacheVars, drainVars, brkVars, readVars>>

\* Line 64: the base transport has answered and c.Client.Do returns.
ReuseAnswer ==
    /\ doPc = "inflight"
    /\ \E out \in BaseOutcomes : doLast' = ClientDo(out)
    /\ doPc' = "check"
    /\ UNCHANGED <<headers, callerReq, doReq, retryNo, returned, retryMax, sent>>
    /\ UNCHANGED <<doVars, rtVars, poolVars, boVars, reqVars, clVars,
                   metricVars, coVars, cacheVars, drainVars, brkVars, readVars>>

\* A return statement of the Do call under way.
LoopReturn ==
    /\ doPc' = "idle"
    /\ returned' = returned + 1
    /\ UNCHANGED retryNo

\* Lines 70-89: the retry policy, whichever it is, answers; Do returns when
\* it says stop or when no retries are left, and goes on to retry otherwise,
\* by way of drainBody when the attempt returned a response and no error.
LoopCheck ==
    /\ doPc = "check"
    /\ \E again \in BOOLEAN :
          IF ~again \/ retriesExhausted([RetryMax |-> retryMax], retryNo)
          THEN LoopReturn
          ELSE /\ doPc' = IF doLast.err = NoErr /\ ~doLast.res.isNil
                          THEN "drain" ELSE "backoff"
               /\ UNCHANGED <<retryNo, returned>>
    /\ UNCHANGED <<headers, callerReq, doReq, doLast, retryMax, sent>>
    /\ UNCHANGED <<doVars, rtVars, poolVars, boVars, reqVars, clVars,
                   metricVars, coVars, cacheVars, drainVars, brkVars, readVars>>

\* Lines 89-91: drainBody has read from the body of the response and closed
\* it.
LoopDrain ==
    /\ doPc = "drain"
    /\ doPc' = "backoff"
    /\ UNCHANGED <<headers, callerReq, doReq, retryNo, doLast, returned,
                   retryMax, sent>>
    /\ UNCHANGED <<doVars, rtVars, poolVars, boVars, reqVars, clVars,
                   metricVars, coVars, cacheVars, drainVars, brkVars, readVars>>

\* Lines 94-104: the wait is computed; Do returns when the context of the
\* request has a deadline that comes before the end of the wait.
LoopBackoff ==
    /\ doPc = "backoff"
    /\ \E deadlineFirst \in BOOLEAN :
          IF deadlineFirst
          THEN LoopReturn
          ELSE /\ doPc' = "wait"
               /\ UNCHANGED <<retryNo, returned>>
    /\ UNCHANGED <<headers, callerReq, doReq, doLast, retryMax, sent>>
    /\ UNCHANGED <<doVars, rtVars, poolVars, boVars, reqVars, clVars,
                   metricVars, coVars, cacheVars, drainVars, brkVars, readVars>>

\* Lines 107-111: the select ends with the end of the context, and Do
\* returns, or with the timer, and Do goes round.
LoopSelect ==
    /\ doPc = "wait"
    /\ \E ctxDone \in BOOLEAN :
          IF ctxDone
          THEN LoopReturn
          ELSE /\ retryNo' = retryNo + 1
               /\ doPc' = "prepare"
               /\ UNCHANGED returned
    /\ UNCHANGED <<headers, callerReq, doReq, doLast, retryMax, sent>>
    /\ UNCHANGED <<doVars, rtVars, poolVars, boVars, reqVars, clVars,
                   metricVars, coVars, cacheVars, drainVars, brkVars, readVars>>

ReuseNext ==
    \/ DoAgain
    \/ ReuseSend
    \/ ReuseAnswer
    \/ LoopCheck
    \/ LoopDrain
    \/ LoopBackoff
    \/ LoopSelect

ReuseSpec == ReuseInit /\ [][ReuseNext]_vars

\* The attempts the base transport saw, by position in `sent`.
Attempts == 1..Len(sent)

\* C30: every outgoing attempt with attempt number i > 0 carries the header
\* x-retry with value i, and attempt 0 of every Do call carries no x-retry
\* header, also when the same request value went through an earlier Do call
\* that retried.
C30_RetryHeader ==
    \A a \in Attempts :
        /\ sent[a].i > 0 => Get(sent[a].Header, "x-retry") = Itoa(sent[a].i)
        /\ sent[a].i = 0 => "X-Retry" \notin DOMAIN sent[a].Header

\* C30, what holds: every attempt with attempt number i > 0 carries x-retry
\* with value i, and attempt 0 carries none as long as no earlier attempt on
\* the same request value was a retry.
C30_RetriesCarryAttempt ==
    \A a \in Attempts :
        /\ sent[a].i > 0 => Get(sent[a].Header, "x-retry") = Itoa(sent[a].i)
        /\ (sent[a].i = 0 /\ \A b \in 1..(a - 1) : sent[b].i = 0)
              => "X-Retry" \notin DOMAIN sent[a].Header

\* A second Do call on the request value of a Do call that retried twice
\* has sent its first attempt.
C30_Witness ==
    \E a \in Attempts :
        /\ sent[a].call = 2
        /\ sent[a].i = 0
        /\ \E b \in 1..(a - 1) : sent[b].call = 1 /\ sent[b].i = 2


----------------------------------------------------------------------------
(***************************************************************************)
(* One Do call through a client built by NewRetryable, seen from its       *)
(* response hook.  NewRetryable registers RetryHeaderHook as request hook  *)
(* and RetryMetricHook as response hook of the HookRoundTripper; the       *)
(* layers below it answer with any outcome, and any retry policy decides.  *)
(* An entry of `metrics` is a call of telemetry.Incr: the name of the      *)
(* counter, its status and status_class tags, and the position in `sent`   *)
(* of the attempt the hook ran for.                                        *)
(***************************************************************************)

retryCountMetric == "toolkit.http.client.request.retry.count"

\* RetryMetricHook(req, res, err) for the attempt at position `at`: the
\* calls of telemetry.Incr it makes.
RetryMetricHook(r, res, e, at) ==
    IF RetryCount(r) = 0
    THEN <<>>
    ELSE <<[name |-> retryCountMetric,
            status |-> IF e = NoErr THEN Itoa(res.StatusCode)
                       ELSE IF IsTimeout(e) THEN <<"t", "i", "m", "e", "o", "u", "t">>
                       ELSE <<"e", "r", "r", "o", "r">>,
            statusClass |-> IF e = NoErr
                            THEN Itoa(res.StatusCode \div 100) \o <<"x", "x">>
                            ELSE <<"e", "r", "r", "o", "r">>,
            at |-> at]>>

\* The request the caller hands to Do: built on a fresh context, or on the
\* context of a request that an enclosing Do call sent as its retry
\* MaxRetryMax.
HookedRequests ==
    {[GetBody |-> "nil", Body |-> NoBody, retries |-> c, Header |-> 1] :
        c \in {<<>>, <<MaxRetryMax>>}}

MetricInit ==
    /\ NoDo
    /\ NoRoundTrip
    /\ NoPool
    /\ NoBackoffFunc
    /\ NoNewRequest
    /\ NoVerdict
    /\ NoConcurrency
    /\ NoCache
    /\ NoDrain
    /\ NoBreakerRetry
    /\ NoReads
    /\ headers = <<<<>>>>
    /\ callerReq \in HookedRequests
    /\ doReq = <<>>
    /\ retryNo = 0
    /\ doPc = "idle"
    /\ doLast = NotSent
    /\ returned = 0
    /\ retryMax \in 0..MaxRetryMax
    /\ sent = <<>>
    /\ metrics = <<>>

\* Lines 53-57: the caller calls Do with its request, once.
DoOnce ==
    /\ doPc = "idle"
    /\ returned = 0
    /\ doPc' = "prepare"
    /\ doReq' = callerReq
    /\ retryNo' = 0
    /\ UNCHANGED <<headers, callerReq, doLast, returned, retryMax, sent, metrics>>
    /\ UNCHANGED <<doVars, rtVars, poolVars, boVars, reqVars, clVars, coVars,
                   cacheVars, drainVars, brkVars, readVars>>

\* Lines 58-64, down to the base transport: requestFromInternal, then
\* c.Client.Do, in which the user agent layer and the request hooks of the
\* HookRoundTripper (lines 408-412) run before the request leaves.  The
\* attempt is listed in `sent` without an answer.
MetricSend ==
    /\ doPc = "prepare"
    /\ LET r2 == requestFromInternal(doReq, retryNo, <<>>, FALSE).req
           after == RetryHeaderHook(r2, setUserAgent(r2, headers))
       IN  /\ doReq' = r2
           /\ headers' = after
           /\ sent' = Append(sent, [call |-> returned + 1, i |-> retryNo,
                                    RetryCount |-> RetryCount(r2),
                                    Header |-> after[r2.Header],
                                    answered |-> FALSE,
                                    res |-> NilRes, err |-> NoErr])
    /\ doPc' = "inflight"
    /\ UNCHANGED <<callerReq, retryNo, doLast, returned, retryMax, metrics>>
    /\ UNCHANGED <<doVars, rtVars, poolVars, boVars, reqVars, clVars, coVars,
                   cacheVars, drainVars, brkVars, readVars>>

\* Line 64: the layers below the HookRoundTripper have answered, its
\* response hooks run (lines 418-420) and c.Client.Do returns.
MetricAnswer ==
    /\ doPc = "inflight"
    /\ \E out \in BaseOutcomes :
         /\ sent' = [sent EXCEPT ![Len(sent)].answered = TRUE,
                                 ![Len(sent)].res = out.res,
                                 ![Len(sent)].err = out.err]
         /\ metrics' = metrics \o RetryMetricHook(doReq, out.res, out.err, Len(sent))
         /\ doLast' = ClientDo(out)
    /\ doPc' = "check"
    /\ UNCHANGED <<headers, callerReq, doReq, retryNo, returned, retryMax>>
    /\ UNCHANGED <<doVars, rtVars, poolVars, boVars, reqVars, clVars, coVars,
                   cacheVars, drainVars, brkVars, readVars>>

MetricNext ==
    \/ DoOnce
    \/ MetricSend
    \/ MetricAnswer
    \/ LoopCheck
    \/ LoopDrain
    \/ LoopBackoff
    \/ LoopSelect

MetricSpec == MetricInit /\ [][MetricNext]_vars

\* The calls of telemetry.Incr made for the attempt at position a.
MetricsOf(a) == {m \in 1..Len(metrics) : metrics[m].at = a}

\* The attempts c.Client.Do has returned from.
AnsweredAttempts == {a \in Attempts : sent[a].answered}

\* The status and status_class tags that tell the outcome of an attempt.
OutcomeTags(a) ==
    IF a.err = NoErr
    THEN [status |-> StatusDigits(a.res.StatusCode),
          statusClass |-> <<Digits[(a.res.StatusCode \div 100) + 1], "x", "x">>]
    ELSE [status |-> IF a.err = TimeoutErr THEN <<"t", "i", "m", "e", "o", "u", "t">>
                     ELSE <<"e", "r", "r", "o", "r">>,
          statusClass |-> <<"e", "r", "r", "o", "r">>]

\* The retry counter was recorded exactly once for the attempt at position
\* a, with the tags of its outcome.
CountedOnce(a) ==
    /\ Cardinality(MetricsOf(a)) = 1
    /\ \A m \in MetricsOf(a) :
          /\ metrics[m].name = retryCountMetric
          /\ metrics[m].status = OutcomeTags(sent[a]).status
          /\ metrics[m].statusClass = OutcomeTags(sent[a]).statusClass

\* C31: a Do call records the retry counter once for each attempt with
\* attempt number > 0, tagged with that attempt's outcome, and never for
\* attempt 0: k times for k + 1 attempts that were answered.
C31_RetryMetric ==
    /\ \A a \in AnsweredAttempts :
          /\ sent[a].i > 0 => CountedOnce(a)
          /\ sent[a].i = 0 => MetricsOf(a) = {}
    /\ AnsweredAttempts # {} => Len(metrics) = Cardinality(AnsweredAttempts) - 1

\* C31, what holds: the counter is recorded once, tagged with the outcome,
\* for each answered attempt whose request carries a retry count > 0 and for
\* no other; for a request built on a context without a retry count these
\* are the attempts with attempt number > 0.
C31_MetricPerCountedRequest ==
    /\ \A a \in AnsweredAttempts :
          /\ sent[a].RetryCount > 0 => CountedOnce(a)
          /\ sent[a].RetryCount = 0 => MetricsOf(a) = {}
    /\ \A a \in Attempts \ AnsweredAttempts : MetricsOf(a) = {}
    /\ RetryCount(callerReq) = 0 =>
          /\ \A a \in Attempts : sent[a].RetryCount = sent[a].i
          /\ AnsweredAttempts # {} =>
                Len(metrics) = Cardinality(AnsweredAttempts) - 1

\* A Do call on a fresh context returned after MaxRetryMax retries, one of
\* which timed out and one of which was answered 500.
C31_Witness ==
    /\ doPc = "idle"
    /\ returned = 1
    /\ RetryCount(callerReq) = 0
    /\ Len(sent) = MaxRetryMax + 1
    /\ \E a, b \in Attempts :
          /\ sent[a].i > 0 /\ sent[a].err = TimeoutErr
          /\ sent[b].i > 0 /\ sent[b].err = NoErr
          /\ sent[b].res.StatusCode = StatusInternalServerError


----------------------------------------------------------------------------
(***************************************************************************)
(* Several goroutines call Do on one *RetryableClient, each with a request *)
(* of its own.  Do reads the fields of the client and keeps req, resp, err *)
(* and i in locals of the call; `frames` holds these locals, one record    *)
(* per call.  A request carries the goroutine that built it, and a         *)
(* response the request it answers (resp.Request).                         *)
(*                                                                         *)
(* The closure of LinearJitterBackoff holds one *rand.Rand (line 285),     *)
(* which every call of the strategy uses at line 302 without a lock, and   *)
(* a Rand made by rand.New is not safe for concurrent use.  When the calls *)
(* of two goroutines overlap inside r.Float64() the outcome is not         *)
(* defined: each of them gets a number, or panics with an index out of     *)
(* range in the generator.  Do does not recover: the panic leaves Do, and  *)
(* unless the caller recovers it the process ends, the other calls with    *)
(* it.  `sharedClient.r` is the generator: the goroutines inside           *)
(* r.Float64() and those whose call has overlapped with another.           *)
(***************************************************************************)

\* Lines 143-144 and 295-302: the strategy of client c draws from its
\* generator.  The responses of this specification carry no Retry-After.
UsesRand(c) ==
    /\ c.BackoffStrategy.kind = "LinearJitterBackoff"
    /\ c.BackoffStrategy.max > c.BackoffStrategy.min

\* The locals of the Do call of goroutine g (lines 54-57).
Frame(g) == g

\* The request goroutine g built for its call.
RequestOf(g) ==
    [GetBody |-> "nil", Body |-> NoBody, retries |-> <<>>, builtBy |-> g]

\* What c.Client.Do(r) can return.
Answers(r) ==
    {[resp |-> [isNil |-> FALSE, StatusCode |-> st, Request |-> r], err |-> NoErr] :
        st \in {200, StatusServiceUnavailable}}
    \cup {[resp |-> [isNil |-> TRUE, StatusCode |-> 0, Request |-> <<>>],
           err |-> TransportErr]}

NoResponse == [isNil |-> TRUE, StatusCode |-> 0, Request |-> <<>>]

ConcurrentInit ==
    /\ NoDo
    /\ NoRoundTrip
    /\ NoPool
    /\ NoBackoffFunc
    /\ NoNewRequest
    /\ NoVerdict
    /\ NoReuse
    /\ NoMetrics
    /\ NoCache
    /\ NoDrain
    /\ NoBreakerRetry
    /\ NoReads
    /\ sharedClient \in [RetryMax : 0..MaxRetryMax,
                         BackoffStrategy : {NilBackoff, LinearJitterBackoff(1, 3)},
                         r : {[inside |-> {}, raced |-> {}]}]
    /\ frames = [g \in Goroutines |-> <<>>]
    /\ running = [g \in Goroutines |-> "idle"]
    /\ contexts = [g \in Goroutines |-> NoErr]
    /\ invoked = [g \in Goroutines |-> <<>>]
    /\ answered = [g \in Goroutines |-> <<>>]
    /\ results = [g \in Goroutines |-> <<>>]

\* Lines 53-57: goroutine g enters Do.
Enter(g) ==
    /\ running[g] = "idle"
    /\ frames' = [frames EXCEPT ![Frame(g)] =
                     [req |-> RequestOf(g), resp |-> NoResponse, err |-> NoErr,
                      i |-> 0]]
    /\ running' = [running EXCEPT ![g] = "prepare"]
    /\ UNCHANGED <<sharedClient, contexts, invoked, answered, results>>
    /\ UNCHANGED <<doVars, rtVars, poolVars, boVars, reqVars, clVars, hdrVars,
                   metricVars, cacheVars, drainVars, brkVars, readVars>>

\* Lines 58-64: requestFromInternal, then c.Client.Do is invoked.
Invoke(g) ==
    /\ running[g] = "prepare"
    /\ LET f == frames[Frame(g)]
           r2 == requestFromInternal(f.req, f.i, <<>>, FALSE).req
       IN  /\ frames' = [frames EXCEPT ![Frame(g)].req = r2]
           /\ invoked' = [invoked EXCEPT ![g] = Append(@, r2)]
    /\ running' = [running EXCEPT ![g] = "inflight"]
    /\ UNCHANGED <<sharedClient, contexts, answered, results>>
    /\ UNCHANGED <<doVars, rtVars, poolVars, boVars, reqVars, clVars, hdrVars,
                   metricVars, cacheVars, drainVars, brkVars, readVars>>

\* Line 64: c.Client.Do returns to goroutine g.
Answer(g) ==
    /\ running[g] = "inflight"
    /\ \E out \in Answers(invoked[g][Len(invoked[g])]) :
         /\ frames' = [frames EXCEPT ![Frame(g)].resp = out.resp,
                                     ![Frame(g)].err = out.err]
         /\ answered' = [answered EXCEPT ![g] = Append(@, out)]
    /\ running' = [running EXCEPT ![g] = "check"]
    /\ UNCHANGED <<sharedClient, contexts, invoked, results>>
    /\ UNCHANGED <<doVars, rtVars, poolVars, boVars, reqVars, clVars, hdrVars,
                   metricVars, cacheVars, drainVars, brkVars, readVars>>

\* Lines 70-89: the default policy answers; Do returns the last response,
\* with the error of the policy if it gave one, when it says stop; it
\* returns the last response and error when no retries are left; otherwise
\* it goes on to retry, by way of drainBody when the attempt returned a
\* response and no error.
Decide(g) ==
    /\ running[g] = "check"
    /\ LET f == frames[Frame(g)]
           a == ServerErrorsRetryPolicy(contexts[g], f.resp, f.err)
       IN  IF ~a[1]
           THEN /\ results' = [results EXCEPT ![g] = <<f.resp, StopErr(a[2], f.err)>>]
                /\ running' = [running EXCEPT ![g] = "done"]
           ELSE IF retriesExhausted(sharedClient, f.i)
           THEN /\ results' = [results EXCEPT ![g] = <<f.resp, f.err>>]
                /\ running' = [running EXCEPT ![g] = "done"]
           ELSE /\ running' = [running EXCEPT ![g] =
                                  IF f.err = NoErr /\ ~f.resp.isNil
                                  THEN "drain" ELSE "backoff"]
                /\ UNCHANGED results
    /\ UNCHANGED <<sharedClient, frames, contexts, invoked, answered>>
    /\ UNCHANGED <<doVars, rtVars, poolVars, boVars, reqVars, clVars, hdrVars,
                   metricVars, cacheVars, drainVars, brkVars, readVars>>

\* Lines 89-91: drainBody has read from the body of the response of g and
\* closed it.
DrainOf(g) ==
    /\ running[g] = "drain"
    /\ running' = [running EXCEPT ![g] = "backoff"]
    /\ UNCHANGED <<sharedClient, frames, contexts, invoked, answered, results>>
    /\ UNCHANGED <<doVars, rtVars, poolVars, boVars, reqVars, clVars, hdrVars,
                   metricVars, cacheVars, drainVars, brkVars, readVars>>

\* Lines 97-104: Do returns the last response and error when the deadline
\* of the context comes before the end of the wait, and goes on to the
\* select otherwise.
WaitOrReturn(g) ==
    LET f == frames[Frame(g)]
    IN  \E deadlineFirst \in BOOLEAN :
          IF deadlineFirst
          THEN /\ results' = [results EXCEPT ![g] = <<f.resp, f.err>>]
               /\ running' = [running EXCEPT ![g] = "done"]
          ELSE /\ running' = [running EXCEPT ![g] = "wait"]
               /\ UNCHANGED results

\* Lines 94-104: the wait is computed.  A strategy that draws from the
\* generator enters r.Float64(), beside the goroutines that are in it; with
\* any other strategy Do goes straight on.
BackoffOf(g) ==
    /\ running[g] = "backoff"
    /\ IF UsesRand(sharedClient)
       THEN /\ sharedClient' =
                  [sharedClient EXCEPT
                      !.r.inside = @ \cup {g},
                      !.r.raced = IF sharedClient.r.inside = {} THEN @
                                  ELSE @ \cup sharedClient.r.inside \cup {g}]
            /\ running' = [running EXCEPT ![g] = "rand"]
            /\ UNCHANGED results
       ELSE /\ WaitOrReturn(g)
            /\ UNCHANGED sharedClient
    /\ UNCHANGED <<frames, contexts, invoked, answered>>
    /\ UNCHANGED <<doVars, rtVars, poolVars, boVars, reqVars, clVars, hdrVars,
                   metricVars, cacheVars, drainVars, brkVars, readVars>>

\* Lines 302-304 and 97-104: r.Float64() ends.  It returns a number and Do
\* goes on; when the call overlapped with that of another goroutine it may
\* panic instead, and then the call of g ends without a return and, unless
\* the caller recovers the panic, the process with every call under way.
Float64Of(g) ==
    /\ running[g] = "rand"
    /\ sharedClient' = [sharedClient EXCEPT !.r.inside = @ \ {g},
                                            !.r.raced = @ \ {g}]
    /\ \/ WaitOrReturn(g)
       \/ /\ g \in sharedClient.r.raced
          /\ \E recovered \in BOOLEAN :
                running' = [h \in Goroutines |->
                              IF h = g THEN "panic"
                              ELSE IF recovered \/ running[h] = "done"
                                   THEN running[h]
                                   ELSE "exit"]
          /\ UNCHANGED results
    /\ UNCHANGED <<frames, contexts, invoked, answered>>
    /\ UNCHANGED <<doVars, rtVars, poolVars, boVars, reqVars, clVars, hdrVars,
                   metricVars, cacheVars, drainVars, brkVars, readVars>>

\* Lines 107-111: the select ends by the context of g or by the timer.
Wake(g) ==
    /\ running[g] = "wait"
    /\ \/ /\ contexts[g] # NoErr
          /\ results' = [results EXCEPT ![g] = <<NoResponse, contexts[g]>>]
          /\ running' = [running EXCEPT ![g] = "done"]
          /\ UNCHANGED frames
       \/ /\ frames' = [frames EXCEPT ![Frame(g)].i = @ + 1]
          /\ running' = [running EXCEPT ![g] = "prepare"]
          /\ UNCHANGED results
    /\ UNCHANGED <<sharedClient, contexts, invoked, answered>>
    /\ UNCHANGED <<doVars, rtVars, poolVars, boVars, reqVars, clVars, hdrVars,
                   metricVars, cacheVars, drainVars, brkVars, readVars>>

\* The caller of goroutine g cancels its context.
CancelOf(g) ==
    /\ running[g] \notin {"idle", "done", "panic", "exit"}
    /\ contexts[g] = NoErr
    /\ contexts' = [contexts EXCEPT ![g] = Canceled]
    /\ UNCHANGED <<sharedClient, frames, running, invoked, answered, results>>
    /\ UNCHANGED <<doVars, rtVars, poolVars, boVars, reqVars, clVars, hdrVars,
                   metricVars, cacheVars, drainVars, brkVars, readVars>>

ConcurrentNext ==
    \E g \in Goroutines :
        \/ Enter(g)
        \/ Invoke(g)
        \/ Answer(g)
        \/ Decide(g)
        \/ DrainOf(g)
        \/ BackoffOf(g)
        \/ Float64Of(g)
        \/ Wake(g)
        \/ CancelOf(g)

ConcurrentSpec == ConcurrentInit /\ [][ConcurrentNext]_vars

\* What the call of g has done so far is its own: its attempts carry its
\* own request with the attempt numbers 0, 1, 2, ... in order, there are at
\* most RetryMax + 1 of them, and what it returned is the response and
\* error of its own last attempt, the error replaced by that of its own
\* context when the policy stopped on it, or no response and the error of
\* its own context.
OwnOutcome(g) ==
    /\ \A n \in 1..Len(invoked[g]) :
          /\ invoked[g][n].builtBy = g
          /\ RetryCount(invoked[g][n]) = n - 1
    /\ Len(invoked[g]) <= sharedClient.RetryMax + 1
    /\ \A n \in 1..Len(answered[g]) :
          ~answered[g][n].resp.isNil => answered[g][n].resp.Request = invoked[g][n]
    /\ running[g] = "done" =>
          \/ /\ answered[g] # <<>>
             /\ results[g][1] = answered[g][Len(answered[g])].resp
             /\ results[g][2] \in {answered[g][Len(answered[g])].err, contexts[g]}
          \/ /\ contexts[g] # NoErr
             /\ results[g] = <<NoResponse, contexts[g]>>

\* The calls that ended without a return: by a panic of their own, or with
\* the process.
Broken == {g \in Goroutines : running[g] \in {"panic", "exit"} /\ frames[Frame(g)] # <<>>}

\* C32: under any interleaving of the Do calls on one client the calls
\* share no state: the attempts of each call carry its own request with the
\* attempt numbers 0, 1, 2, ... in order, each call makes at most
\* RetryMax + 1 attempts, and each call ends by returning the response and
\* error of its own last attempt, the error replaced by that of its own
\* context when the policy stopped on it, or no response and the error of
\* its own context.
C32_CallsIndependent ==
    \A g \in Goroutines : OwnOutcome(g) /\ g \notin Broken

\* C32, what holds: the attempts and the return value of each call are its
\* own, and a call ends without a return only on a client whose strategy
\* is LinearJitterBackoff with max > min, after two calls have come to a
\* retry.
C32_IndependentUnlessRaced ==
    /\ \A g \in Goroutines : OwnOutcome(g)
    /\ Broken # {} =>
          /\ UsesRand(sharedClient)
          /\ \E g, h \in Goroutines :
                /\ g # h
                /\ answered[g] # <<>> /\ answered[h] # <<>>
                /\ sharedClient.RetryMax >= 1

\* Both calls returned after interleaved attempts: g1 retried twice and got
\* a response, g2 was in flight meanwhile and ended by its context.
C32_Witness ==
    /\ running["g1"] = "done" /\ running["g2"] = "done"
    /\ Len(invoked["g1"]) = 3
    /\ ~results["g1"][1].isNil
    /\ Len(invoked["g2"]) = 2
    /\ results["g2"] = <<NoResponse, Canceled>>


----------------------------------------------------------------------------
(***************************************************************************)
(* The cache decorator (CacheDecorator: httpcache.Transport over a Cache)  *)
(* and the local cache store.  The store is the code of NewLocalCache; the *)
(* decorator is modelled from section 4.4 of the specification: a fresh    *)
(* entry is served without a call of the wrapped transport, a stale one is *)
(* revalidated, a miss goes to the wrapped transport and a cacheable       *)
(* answer is stored.  An item of the store is the serialized response:     *)
(* its body, its validator, the time it was stored and its max-age.        *)
(***************************************************************************)

\* The requests the decorator sees, the longest freshness lifetime an
\* origin grants, and the latest time on the clock.
MaxCacheRequests == 2
MaxAge == 2
MaxClock == 2

URLs == {"/resource", "/other"}
Methods == {"GET", "POST"}

\* The key of a request in the store: method and URL.
cacheKey(method, url) == <<method, url>>

\* A variant of the store whose Set keeps nothing.
cacheSet_Drops(s, key, responseBytes) == s

\* (c *cache) Set(key, responseBytes).
cacheSet(s, key, responseBytes) ==
    [k \in DOMAIN s \cup {key} |-> IF k = key THEN responseBytes ELSE s[k]]

\* (c *cache) Get(key): the item and whether there is one.
cacheGet(s, key) ==
    IF key \in DOMAIN s THEN <<s[key], TRUE>> ELSE <<<<>>, FALSE>>

\* (c *cache) Delete(key).
cacheDelete(s, key) == [k \in DOMAIN s \ {key} |-> s[k]]

\* An item is fresh while its age is below its max-age.
Fresh(item, clock) == clock - item.storedAt < item.maxAge

\* What the origin answers to a GET: a status, a body and a max-age; 0
\* means the answer must not be served again without revalidation.
OriginAnswers ==
    [status : {200, StatusInternalServerError}, body : {"v1", "v2"},
     maxAge : {0, MaxAge}]

\* A response with this status and max-age is stored.
Cacheable(a) == a.status = 200

CacheInit ==
    /\ NoDo
    /\ NoRoundTrip
    /\ NoPool
    /\ NoBackoffFunc
    /\ NoNewRequest
    /\ NoVerdict
    /\ NoReuse
    /\ NoMetrics
    /\ NoConcurrency
    /\ NoDrain
    /\ NoBreakerRetry
    /\ NoReads
    /\ cacheStore = <<>>
    /\ cacheClock = 0
    /\ originCalls = [k \in Methods \X URLs |-> 0]
    /\ served = <<>>
    /\ removals = [k \in Methods \X URLs |-> 0]

\* What the decorator answered to a request for key k.
Served(k, fromCache, body, stored, maxAge) ==
    [key |-> k, at |-> cacheClock, fromCache |-> fromCache, body |-> body,
     stored |-> stored, maxAge |-> maxAge, calls |-> originCalls'[k],
     removals |-> removals[k]]

\* A GET of url through the decorator.
CacheGetRequest(url) ==
    LET k == cacheKey("GET", url)
        got == cacheGet(cacheStore, k)
    IN  /\ Len(served) < MaxCacheRequests
        /\ IF got[2] /\ Fresh(got[1], cacheClock)
           THEN \* a fresh entry: served from the store
                /\ UNCHANGED <<cacheStore, originCalls>>
                /\ served' = Append(served, Served(k, TRUE, got[1].body, FALSE, got[1].maxAge))
           ELSE IF got[2]
           THEN \* a stale entry: a conditional request; 304 refreshes the
                \* entry, any other answer replaces it
                /\ originCalls' = [originCalls EXCEPT ![k] = @ + 1]
                /\ \E notModified \in BOOLEAN, a \in OriginAnswers :
                     IF notModified
                     THEN /\ cacheStore' = cacheSet(cacheStore, k,
                                 [got[1] EXCEPT !.storedAt = cacheClock])
                          /\ served' = Append(served,
                                 Served(k, TRUE, got[1].body, TRUE, got[1].maxAge))
                     ELSE /\ cacheStore' = IF Cacheable(a)
                                 THEN cacheSet(cacheStore, k,
                                        [body |-> a.body, storedAt |-> cacheClock,
                                         maxAge |-> a.maxAge])
                                 ELSE cacheDelete(cacheStore, k)
                          /\ served' = Append(served,
                                 Served(k, FALSE, a.body, Cacheable(a), a.maxAge))
           ELSE \* a miss: the wrapped transport answers
                /\ originCalls' = [originCalls EXCEPT ![k] = @ + 1]
                /\ \E a \in OriginAnswers :
                     /\ cacheStore' = IF Cacheable(a)
                            THEN cacheSet(cacheStore, k,
                                   [body |-> a.body, storedAt |-> cacheClock,
                                    maxAge |-> a.maxAge])
                            ELSE cacheStore
                     /\ served' = Append(served,
                            Served(k, FALSE, a.body, Cacheable(a), a.maxAge))
        /\ UNCHANGED <<cacheClock, removals>>
        /\ UNCHANGED <<doVars, rtVars, poolVars, boVars, reqVars, clVars,
                       hdrVars, metricVars, coVars, drainVars, brkVars, readVars>>

\* A POST to url through the decorator: it goes to the wrapped transport
\* and invalidates the entry of the GET of the same url.
CachePostRequest(url) ==
    LET k == cacheKey("POST", url)
        g == cacheKey("GET", url)
    IN  /\ Len(served) < MaxCacheRequests
        /\ originCalls' = [originCalls EXCEPT ![k] = @ + 1]
        /\ cacheStore' = cacheDelete(cacheStore, g)
        /\ removals' = [removals EXCEPT ![g] = @ + 1]
        /\ served' = Append(served, Served(k, FALSE, "v1", FALSE, 0))
        /\ UNCHANGED cacheClock
        /\ UNCHANGED <<doVars, rtVars, poolVars, boVars, reqVars, clVars,
                       hdrVars, metricVars, coVars, drainVars, brkVars, readVars>>

\* The store evicts an item to stay below its size.
Evict ==
    /\ \E k \in DOMAIN cacheStore :
         /\ cacheStore' = cacheDelete(cacheStore, k)
         /\ removals' = [removals EXCEPT ![k] = @ + 1]
    /\ UNCHANGED <<cacheClock, originCalls, served>>
    /\ UNCHANGED <<doVars, rtVars, poolVars, boVars, reqVars, clVars, hdrVars,
                   metricVars, coVars, drainVars, brkVars, readVars>>

\* Time passes.
CacheTick ==
    /\ cacheClock < MaxClock
    /\ cacheClock' = cacheClock + 1
    /\ UNCHANGED <<cacheStore, originCalls, served, removals>>
    /\ UNCHANGED <<doVars, rtVars, poolVars, boVars, reqVars, clVars, hdrVars,
                   metricVars, coVars, drainVars, brkVars, readVars>>

CacheNext ==
    \/ \E url \in URLs : CacheGetRequest(url)
    \/ \E url \in URLs : CachePostRequest(url)
    \/ Evict
    \/ CacheTick

CacheSpec == CacheInit /\ [][CacheNext]_vars

\* Answer p went to the wrapped transport and stored its response with a
\* freshness lifetime; answer q is the next GET of the same resource, it
\* comes within that lifetime, and the store kept the item in between.
SecondGet(p, q) ==
    /\ p < q
    /\ served[p].key = served[q].key
    /\ served[p].key[1] = "GET"
    /\ ~served[p].fromCache
    /\ served[p].stored
    /\ served[p].maxAge > 0
    /\ \A m \in (p + 1)..(q - 1) : served[m].key # served[p].key
    /\ served[p].removals = served[q].removals
    /\ served[q].at - served[p].at < served[p].maxAge

\* C33: after a first cacheable GET of a resource populated the store, a
\* second GET of it within the freshness window is answered from the store
\* and the wrapped transport is not invoked again: its count stays what it
\* was after the first GET, 1.
C33_SecondGetFromStore ==
    \A p, q \in 1..Len(served) :
        SecondGet(p, q) =>
            /\ served[q].fromCache
            /\ served[q].body = served[p].body
            /\ served[q].calls = served[p].calls

\* The first GET of /resource went to the wrapped transport, and a second
\* one a tick later, within the freshness window, has been answered.
C33_Witness ==
    \E p, q \in 1..Len(served) :
        /\ SecondGet(p, q)
        /\ served[p].key = cacheKey("GET", "/resource")
        /\ served[p].calls = 1
        /\ served[q].calls = 1
        /\ served[q].at = served[p].at + 1


----------------------------------------------------------------------------
(* Claims about the invocations of the body factory. *)

\* C34, as stated: the first attempt is sent without invoking the body
\* factory and every later attempt invokes it once, so that a Do call of a
\* request with a factory that made k + 1 attempts invoked it k times.
C34_Original ==
    (pc = "done" /\ req.GetBody # "nil" /\ calls >= 1) => factoryCalls = calls - 1

\* C34, amended: Do invokes the body factory of a request that has one
\* exactly once before every attempt, the first included: after k + 1
\* attempts it was invoked k + 1 times, and once more when the call that
\* failed ended Do; a request without factory has none invoked.
C34_FactoryEveryAttempt ==
    /\ req.GetBody = "nil" => factoryCalls = 0
    /\ req.GetBody # "nil" =>
          /\ factoryCalls = calls + (IF pc = "call" \/ exit = "L60" THEN 1 ELSE 0)
          /\ pc \notin {"prepare", "done"} => factoryCalls = i + 1

\* Do returned after MaxRetryMax + 1 attempts on a request with a factory.
C34_Witness ==
    /\ pc = "done"
    /\ req.GetBody = "ReaderFunc"
    /\ calls = MaxRetryMax + 1
    /\ factoryCalls = MaxRetryMax + 1


----------------------------------------------------------------------------
(***************************************************************************)
(* A Do call and the bodies of the responses it decides to retry on.  A    *)
(* body is the number of bytes the server sends, the number read so far,   *)
(* the offset at which a Read fails (NoBreak: none does) and the number of *)
(* times Close was called.  `drainLog` lists what Do did: "invoke" and     *)
(* "answer" of c.Client.Do, "drain" for drainBody, "backoff" for           *)
(* backoffDuration and "return".                                           *)
(***************************************************************************)

\* const respReadLimit in drainBody.
respReadLimit == 4096

\* How far the lengths of the bodies lie from respReadLimit.
MaxExcess == 1

NoBreak == 0 - 1

Min(a, b) == IF a <= b THEN a ELSE b

BodyOf(len, breaksAt) == [len |-> len, pos |-> 0, breaksAt |-> breaksAt, closes |-> 0]

\* io.Copy(io.Discard, io.LimitReader(body, limit)): reads until the limit
\* is used up, the body ends or a Read fails.
LimitedCopy(body, limit) ==
    LET end == IF body.breaksAt # NoBreak THEN Min(body.breaksAt, body.len)
               ELSE body.len
        left == IF end > body.pos THEN end - body.pos ELSE 0
    IN  [body EXCEPT !.pos = @ + Min(limit, left)]

\* body.Close().
CloseBody(body) == [body EXCEPT !.closes = @ + 1]

\* A variant of drainBody that reads the whole body.
drainBodyBytes_NoLimit(body) == LimitedCopy(body, body.len)

\* (c *RetryableClient) drainBody(body), its io.Copy: the body after the
\* copy, before the deferred Close.
drainBodyBytes(body) == LimitedCopy(body, respReadLimit)

\* The lengths of the bodies, and what c.Client.Do can return: a response
\* with an unread open body, an error, or (when CheckRedirect fails) both,
\* the body already closed.
BodyLengths ==
    {0, 1} \cup {respReadLimit + d : d \in (0 - MaxExcess)..MaxExcess}
DrainOutcomes ==
    {[isNil |-> FALSE, StatusCode |-> st, body |-> BodyOf(n, b), err |-> NoErr] :
        st \in {200, StatusServiceUnavailable}, n \in BodyLengths, b \in {NoBreak, 1}}
    \cup {[isNil |-> TRUE, StatusCode |-> 0, body |-> BodyOf(0, NoBreak),
           err |-> TransportErr],
          [isNil |-> FALSE, StatusCode |-> 302,
           body |-> CloseBody(BodyOf(1, NoBreak)), err |-> TransportErr]}

DrainInit ==
    /\ NoDo
    /\ NoRoundTrip
    /\ NoPool
    /\ NoBackoffFunc
    /\ NoNewRequest
    /\ NoVerdict
    /\ NoReuse
    /\ NoMetrics
    /\ NoConcurrency
    /\ NoCache
    /\ NoBreakerRetry
    /\ NoReads
    /\ drainMax \in 0..MaxRetryMax
    /\ drainI = 0
    /\ drainPc = "invoke"
    /\ drainLast = <<>>
    /\ drainLog = <<>>
    /\ drainCtx \in {[hasDeadline |-> d, err |-> NoErr] : d \in BOOLEAN}

Did(ev, out) == [ev |-> ev, i |-> drainI, out |-> out]

\* Lines 58-64: c.Client.Do is invoked.
DrainAttempt ==
    /\ drainPc = "invoke"
    /\ drainLog' = Append(drainLog, Did("invoke", <<>>))
    /\ drainPc' = "inflight"
    /\ UNCHANGED <<drainMax, drainI, drainLast, drainCtx>>
    /\ UNCHANGED <<doVars, rtVars, poolVars, boVars, reqVars, clVars, hdrVars,
                   metricVars, coVars, cacheVars, brkVars, readVars>>

\* Line 64: c.Client.Do returns.
DrainAnswer ==
    /\ drainPc = "inflight"
    /\ \E out \in DrainOutcomes :
         /\ drainLast' = out
         /\ drainLog' = Append(drainLog, Did("answer", out))
    /\ drainPc' = "check"
    /\ UNCHANGED <<drainMax, drainI, drainCtx>>
    /\ UNCHANGED <<doVars, rtVars, poolVars, boVars, reqVars, clVars, hdrVars,
                   metricVars, coVars, cacheVars, brkVars, readVars>>

\* Lines 70-89: the default policy answers; Do returns the response, with
\* the error of the policy if it gave one, when it says stop; it returns the
\* response and error when no retry is left; otherwise it goes on to retry,
\* by way of drainBody when the attempt returned a response and no error.
DrainCheck ==
    /\ drainPc = "check"
    /\ LET a == ServerErrorsRetryPolicy(drainCtx.err, drainLast, drainLast.err)
           stopped == [drainLast EXCEPT !.err = StopErr(a[2], @)]
       IN  IF ~a[1]
           THEN /\ drainLast' = stopped
                /\ drainLog' = Append(drainLog, Did("return", stopped))
                /\ drainPc' = "done"
           ELSE IF retriesExhausted([RetryMax |-> drainMax], drainI)
           THEN /\ drainLog' = Append(drainLog, Did("return", drainLast))
                /\ drainPc' = "done"
                /\ UNCHANGED drainLast
           ELSE /\ drainPc' = IF drainLast.err = NoErr /\ ~drainLast.isNil
                              THEN "copy" ELSE "backoff"
                /\ UNCHANGED <<drainLast, drainLog>>
    /\ UNCHANGED <<drainMax, drainI, drainCtx>>
    /\ UNCHANGED <<doVars, rtVars, poolVars, boVars, reqVars, clVars, hdrVars,
                   metricVars, coVars, cacheVars, brkVars, readVars>>

\* Lines 90, 122: the io.Copy of drainBody has read from the body.
DrainCopy ==
    /\ drainPc = "copy"
    /\ drainLast' = [drainLast EXCEPT !.body = drainBodyBytes(@)]
    /\ drainPc' = "close"
    /\ UNCHANGED <<drainMax, drainI, drainLog, drainCtx>>
    /\ UNCHANGED <<doVars, rtVars, poolVars, boVars, reqVars, clVars, hdrVars,
                   metricVars, coVars, cacheVars, brkVars, readVars>>

\* Lines 121, 123: the deferred body.Close() runs and drainBody returns.
DrainClose ==
    /\ drainPc = "close"
    /\ LET drained == [drainLast EXCEPT !.body = CloseBody(@)]
       IN  /\ drainLast' = drained
           /\ drainLog' = Append(drainLog, Did("drain", drained))
    /\ drainPc' = "backoff"
    /\ UNCHANGED <<drainMax, drainI, drainCtx>>
    /\ UNCHANGED <<doVars, rtVars, poolVars, boVars, reqVars, clVars, hdrVars,
                   metricVars, coVars, cacheVars, brkVars, readVars>>

\* Lines 94-104: the wait is computed; Do returns the response and error
\* when the deadline of the context comes first.
DrainBackoff ==
    /\ drainPc = "backoff"
    /\ \E deadlineFirst \in {FALSE, drainCtx.hasDeadline} :
         IF deadlineFirst
         THEN /\ drainLog' = drainLog \o <<Did("backoff", <<>>),
                                           Did("return", drainLast)>>
              /\ drainPc' = "done"
         ELSE /\ drainLog' = Append(drainLog, Did("backoff", <<>>))
              /\ drainPc' = "wait"
    /\ UNCHANGED <<drainMax, drainI, drainLast, drainCtx>>
    /\ UNCHANGED <<doVars, rtVars, poolVars, boVars, reqVars, clVars, hdrVars,
                   metricVars, coVars, cacheVars, brkVars, readVars>>

\* What Do returns at line 109.
DrainCtxDone == [isNil |-> TRUE, StatusCode |-> 0, body |-> BodyOf(0, NoBreak),
                 err |-> drainCtx.err]

\* Lines 107-111: the select ends with the timer, and Do goes round, or with
\* the end of the context, and Do returns no response and its error.
DrainWake ==
    /\ drainPc = "wait"
    /\ \/ /\ drainCtx.err # NoErr
          /\ drainLast' = DrainCtxDone
          /\ drainLog' = Append(drainLog, Did("return", DrainCtxDone))
          /\ drainPc' = "done"
          /\ UNCHANGED drainI
       \/ /\ drainI' = drainI + 1
          /\ drainPc' = "invoke"
          /\ UNCHANGED <<drainLast, drainLog>>
    /\ UNCHANGED <<drainMax, drainCtx>>
    /\ UNCHANGED <<doVars, rtVars, poolVars, boVars, reqVars, clVars, hdrVars,
                   metricVars, coVars, cacheVars, brkVars, readVars>>

\* The caller cancels the context, or its deadline passes.
DrainCancel ==
    /\ drainPc \in {"invoke", "inflight", "check", "copy", "close", "backoff", "wait"}
    /\ drainCtx.err = NoErr
    /\ \E e \in {Canceled} \cup (IF drainCtx.hasDeadline THEN {DeadlineExceeded} ELSE {}) :
         drainCtx' = [drainCtx EXCEPT !.err = e]
    /\ UNCHANGED <<drainMax, drainI, drainPc, drainLast, drainLog>>
    /\ UNCHANGED <<doVars, rtVars, poolVars, boVars, reqVars, clVars, hdrVars,
                   metricVars, coVars, cacheVars, brkVars, readVars>>

DrainNext ==
    \/ DrainAttempt
    \/ DrainAnswer
    \/ DrainCheck
    \/ DrainCopy
    \/ DrainClose
    \/ DrainBackoff
    \/ DrainWake
    \/ DrainCancel

DrainSpec == DrainInit /\ [][DrainNext]_vars

\* The positions of the events ev of attempt n in the log.
DrainPos(ev, n) ==
    {p \in 1..Len(drainLog) : drainLog[p].ev = ev /\ drainLog[p].i = n}

\* C35: when Do decides to retry after an attempt that returned a response
\* and no error, it reads at most 4096 bytes of the body and closes it
\* exactly once, before it computes the backoff and before the next attempt
\* starts; after an attempt that returned an error it reads and closes
\* nothing.
C35_DrainBeforeBackoff ==
    \A p \in 1..Len(drainLog) :
        drainLog[p].ev = "backoff" =>
            LET n == drainLog[p].i
                a == drainLog[CHOOSE q \in DrainPos("answer", n) : TRUE].out
            IN  IF a.err = NoErr /\ ~a.isNil
                THEN /\ drainLog[p - 1].ev = "drain"
                     /\ drainLog[p - 2].ev = "answer"
                     /\ Cardinality(DrainPos("drain", n)) = 1
                     /\ drainLog[p - 1].out.body.pos - a.body.pos <= 4096
                     /\ drainLog[p - 1].out.body.closes = a.body.closes + 1
                     /\ \A q \in DrainPos("invoke", n + 1) : q > p
                ELSE /\ drainLog[p - 1].ev = "answer"
                     /\ DrainPos("drain", n) = {}

\* Do retried after a response whose body is longer than 4096 bytes, and
\* after an attempt that failed.
C35_Witness ==
    \E p, q \in 1..Len(drainLog) :
        /\ drainLog[p].ev = "drain"
        /\ drainLog[p].out.body.len > 4096
        /\ drainLog[p].out.body.pos = 4096
        /\ DrainPos("invoke", drainLog[p].i + 1) # {}
        /\ drainLog[q].ev = "backoff"
        /\ drainLog[q - 1].ev = "answer"
        /\ drainLog[q - 1].out.err # NoErr


----------------------------------------------------------------------------
(***************************************************************************)
(* One Do call of a client whose RetryMax may be negative: RetryMax is an  *)
(* int field nothing validates.  The Do call is the one of Spec.           *)
(***************************************************************************)

\* The most negative RetryMax is -MaxNegativeRetryMax.
MaxNegativeRetryMax == 2

SignedClients ==
    [RetryMax : (0 - MaxNegativeRetryMax)..1,
     CheckRetry : {"nil", "ServerErrorsRetryPolicy", "NoRetryPolicy", "custom"},
     BackoffStrategy : BackoffStrategies]

SignedInit ==
    /\ client \in SignedClients
    /\ payload \in Payloads
    /\ req \in Requests(payload)
    /\ ctx \in [err : {NoErr}, deadline : Deadlines]
    /\ now = 0
    /\ pc = "prepare"
    /\ i = 0
    /\ resp = NilResp
    /\ err = NoErr
    /\ shouldRetry = FALSE
    /\ retryErr = NoErr
    /\ backoffWait = 0
    /\ timerAt = 0
    /\ woken = "none"
    /\ ret = <<NilResp, NoErr>>
    /\ exit = "none"
    /\ calls = 0
    /\ checks = 0
    /\ waits = 0
    /\ last = [resp |-> NilResp, err |-> NoErr]
    /\ getBodyErr = NoErr
    /\ seen = <<>>
    /\ inflight = 0
    /\ factoryCalls = 0
    /\ NoRoundTrip
    /\ NoOther

SignedSpec == SignedInit /\ [][Next]_vars

\* C36: whatever RetryMax, policy, backoff function and transport, a Do
\* call that returned invoked the transport at least once unless the body
\* factory failed, and at no time more than max(RetryMax, 0) + 1 times;
\* with RetryMax <= 0 it invoked it exactly once and never waited.
C36_AttemptsAnyRetryMax ==
    /\ calls <= (IF client.RetryMax > 0 THEN client.RetryMax ELSE 0) + 1
    /\ (pc = "done" /\ getBodyErr = NoErr) => calls >= 1
    /\ client.RetryMax <= 0 =>
          /\ waits = 0
          /\ backoffWait = 0
          /\ pc \notin {"backoff", "select", "wait"}
          /\ (pc = "done" /\ getBodyErr = NoErr) => calls = 1

\* A Do call with a negative RetryMax returned after the policy asked for
\* a retry.
C36_Witness ==
    /\ pc = "done"
    /\ client.RetryMax < 0
    /\ shouldRetry
    /\ calls = 1
    /\ exit = "L84"


----------------------------------------------------------------------------
(* Claims about the body of the response Do returns. *)

\* C37: whenever Do returns a response together with a nil error, Do has
\* neither read nor closed the body of that response, on every return path.
C37_ReturnedBodyUntouched ==
    (pc = "done" /\ ~ret[1].isNil /\ ret[2] = NoErr) => ret[1].Body = "open"

\* C37, what holds: the response Do returns with a nil error has its body
\* untouched when Do returns because the policy says stop or because no
\* retries are left; when it returns because the deadline comes before the
\* end of the wait, drainBody has already closed it.
C37_UntouchedUnlessDeadline ==
    (pc = "done" /\ ~ret[1].isNil /\ ret[2] = NoErr) =>
        /\ exit \in {"L77", "L84", "L102"}
        /\ exit \in {"L77", "L84"} => ret[1].Body = "open"
        /\ exit = "L102" => ret[1].Body = "closed"

\* Do returned a response with status 503 and a nil error because the
\* deadline of the context came before the end of the wait.
C37_Witness ==
    /\ pc = "done"
    /\ exit = "L102"
    /\ ~ret[1].isNil
    /\ ret[1].StatusCode = StatusServiceUnavailable
    /\ ret[2] = NoErr
    /\ ret[1].Body = "closed"


----------------------------------------------------------------------------
(***************************************************************************)
(* A Do call of a client built with the default retry policy whose         *)
(* transport chain holds the circuit breaker round tripper.  Every attempt *)
(* reaches CircuitBreakerRoundTripper.RoundTrip, which consults Allow and  *)
(* invokes the base transport only when Allow lets the request through.    *)
(* `brkLog` lists what happened: "Allow" with its answer, "Incr" of the    *)
(* circuit-open counter, "base", "success", "failure", "backoff" and       *)
(* "return".                                                               *)
(***************************************************************************)

\* What the base transport answers when the breaker lets a request through.
BreakerBaseOutcomes ==
    {[resp |-> Response(200, <<>>), err |-> NoErr],
     [resp |-> Response(StatusServiceUnavailable, <<>>), err |-> NoErr],
     [resp |-> NilResp, err |-> TransportErr]}

\* A variant of the breaker round tripper that forwards a denied request.
breakerRoundTrip_Forwards(allowed, out, healthy) ==
    [resp |-> out.resp, err |-> out.err,
     did |-> <<"base">>
             \o (IF out.err # NoErr \/ ~healthy THEN <<"failure">>
                 ELSE <<"success">>)]

\* (b *CircuitBreakerRoundTripper) RoundTrip(r): what it returns and what it
\* did, given the answer of Allow, the answer of the base transport and the
\* answer of CheckFunc.
breakerRoundTrip(allowed, out, healthy) ==
    IF ~allowed
    THEN [resp |-> NilResp, err |-> ErrCircuitOpen, did |-> <<"Incr">>]
    ELSE IF out.err # NoErr
    THEN [resp |-> out.resp, err |-> out.err,
          did |-> <<"base", "failure">>]
    ELSE [resp |-> out.resp, err |-> NoErr,
          did |-> <<"base">>
                  \o (IF healthy THEN <<"success">> ELSE <<"failure">>)]

BreakerRetryInit ==
    /\ NoDo
    /\ NoRoundTrip
    /\ NoPool
    /\ NoBackoffFunc
    /\ NoNewRequest
    /\ NoVerdict
    /\ NoReuse
    /\ NoMetrics
    /\ NoConcurrency
    /\ NoCache
    /\ NoDrain
    /\ NoReads
    /\ brkMax \in 0..MaxRetryMax
    /\ brkI = 0
    /\ brkPc = "attempt"
    /\ brkCtx \in {[hasDeadline |-> d, err |-> NoErr] : d \in BOOLEAN}
    /\ brkLast = <<>>
    /\ brkLog = <<>>

\* The events evs of the current iteration; `ok` is the answer of Allow.
BrkDid(evs, ok) == [k \in 1..Len(evs) |-> [ev |-> evs[k], i |-> brkI, ok |-> ok]]

\* Lines 58-64 of Do and lines 62-72 of the breaker round tripper:
\* c.Client.Do sends the request down the chain; the breaker round tripper
\* consults Allow and, let through, invokes the base transport; denied, it
\* returns at once.
BrkAttempt ==
    /\ brkPc = "attempt"
    /\ \E allowed \in BOOLEAN :
         IF allowed
         THEN /\ brkLog' = brkLog \o BrkDid(<<"Allow", "base">>, allowed)
              /\ brkPc' = "inflight"
              /\ UNCHANGED brkLast
         ELSE \E out \in BreakerBaseOutcomes, healthy \in BOOLEAN :
                LET o == breakerRoundTrip(allowed, out, healthy)
                IN  /\ brkLast' = [resp |-> o.resp, err |-> o.err]
                    /\ brkLog' = brkLog \o BrkDid(<<"Allow">> \o o.did, allowed)
                    /\ brkPc' = "check"
    /\ UNCHANGED <<brkMax, brkI, brkCtx>>
    /\ UNCHANGED <<doVars, rtVars, poolVars, boVars, reqVars, clVars, hdrVars,
                   metricVars, coVars, cacheVars, drainVars, readVars>>

\* Lines 72-85 of the breaker round tripper and line 64 of Do: the base
\* transport has answered, the breaker is told, and c.Client.Do returns.
BrkAnswer ==
    /\ brkPc = "inflight"
    /\ \E out \in BreakerBaseOutcomes, healthy \in BOOLEAN :
         LET o == breakerRoundTrip(TRUE, out, healthy)
         IN  /\ brkLast' = [resp |-> o.resp, err |-> o.err]
             /\ brkLog' = brkLog \o BrkDid(Tail(o.did), TRUE)
    /\ brkPc' = "check"
    /\ UNCHANGED <<brkMax, brkI, brkCtx>>
    /\ UNCHANGED <<doVars, rtVars, poolVars, boVars, reqVars, clVars, hdrVars,
                   metricVars, coVars, cacheVars, drainVars, readVars>>

\* Lines 70-89: the default policy answers; Do returns when it says stop
\* or when no retry is left; otherwise it goes on to retry, by way of
\* drainBody when the attempt returned a response and no error.
BrkCheck ==
    /\ brkPc = "check"
    /\ LET answer == ServerErrorsRetryPolicy(brkCtx.err, brkLast.resp, brkLast.err)
           c == [RetryMax |-> brkMax]
       IN  IF ~answer[1]
           THEN /\ brkLast' = [brkLast EXCEPT !.err = StopErr(answer[2], @)]
                /\ brkLog' = brkLog \o BrkDid(<<"return">>, TRUE)
                /\ brkPc' = "done"
           ELSE IF retriesExhausted(c, brkI)
           THEN /\ brkLog' = brkLog \o BrkDid(<<"return">>, TRUE)
                /\ brkPc' = "done"
                /\ UNCHANGED brkLast
           ELSE /\ brkPc' = IF brkLast.err = NoErr /\ ~brkLast.resp.isNil
                            THEN "drain" ELSE "backoff"
                /\ UNCHANGED <<brkLast, brkLog>>
    /\ UNCHANGED <<brkMax, brkI, brkCtx>>
    /\ UNCHANGED <<doVars, rtVars, poolVars, boVars, reqVars, clVars, hdrVars,
                   metricVars, coVars, cacheVars, drainVars, readVars>>

\* Lines 89-91: drainBody has read from the body of the response and closed
\* it.
BrkDrain ==
    /\ brkPc = "drain"
    /\ brkLast' = [brkLast EXCEPT !.resp = drainBody(@)]
    /\ brkPc' = "backoff"
    /\ UNCHANGED <<brkMax, brkI, brkCtx, brkLog>>
    /\ UNCHANGED <<doVars, rtVars, poolVars, boVars, reqVars, clVars, hdrVars,
                   metricVars, coVars, cacheVars, drainVars, readVars>>

\* Lines 94-104: the wait is computed; Do returns the last response and
\* error when the deadline of the context comes before the end of the wait,
\* and goes on to the select otherwise.
BrkBackoff ==
    /\ brkPc = "backoff"
    /\ \E deadlineFirst \in {FALSE, brkCtx.hasDeadline} :
         IF deadlineFirst
         THEN /\ brkLog' = brkLog \o BrkDid(<<"backoff", "return">>, TRUE)
              /\ brkPc' = "done"
         ELSE /\ brkLog' = brkLog \o BrkDid(<<"backoff">>, TRUE)
              /\ brkPc' = "wait"
    /\ UNCHANGED <<brkMax, brkI, brkCtx, brkLast>>
    /\ UNCHANGED <<doVars, rtVars, poolVars, boVars, reqVars, clVars, hdrVars,
                   metricVars, coVars, cacheVars, drainVars, readVars>>

\* Lines 107-111: the select ends with the timer, and Do goes round, or with
\* the end of the context, and Do returns its error.
BrkWake ==
    /\ brkPc = "wait"
    /\ IF brkCtx.err # NoErr
       THEN \/ /\ brkLast' = [resp |-> NilResp, err |-> brkCtx.err]
               /\ brkLog' = brkLog \o BrkDid(<<"return">>, TRUE)
               /\ brkPc' = "done"
               /\ UNCHANGED brkI
            \/ /\ brkI' = brkI + 1
               /\ brkPc' = "attempt"
               /\ UNCHANGED <<brkLast, brkLog>>
       ELSE /\ brkI' = brkI + 1
            /\ brkPc' = "attempt"
            /\ UNCHANGED <<brkLast, brkLog>>
    /\ UNCHANGED <<brkMax, brkCtx>>
    /\ UNCHANGED <<doVars, rtVars, poolVars, boVars, reqVars, clVars, hdrVars,
                   metricVars, coVars, cacheVars, drainVars, readVars>>

\* The caller cancels the context, or its deadline passes.
BrkCancel ==
    /\ brkPc \in {"attempt", "inflight", "check", "drain", "backoff", "wait"}
    /\ brkCtx.err = NoErr
    /\ \E e \in {Canceled} \cup (IF brkCtx.hasDeadline THEN {DeadlineExceeded} ELSE {}) :
         brkCtx' = [brkCtx EXCEPT !.err = e]
    /\ UNCHANGED <<brkMax, brkI, brkPc, brkLast, brkLog>>
    /\ UNCHANGED <<doVars, rtVars, poolVars, boVars, reqVars, clVars, hdrVars,
                   metricVars, coVars, cacheVars, drainVars, readVars>>

BreakerRetryNext ==
    \/ BrkAttempt
    \/ BrkAnswer
    \/ BrkCheck
    \/ BrkDrain
    \/ BrkBackoff
    \/ BrkWake
    \/ BrkCancel

BreakerRetrySpec == BreakerRetryInit /\ [][BreakerRetryNext]_vars

\* The positions of the events ev in the log.
BrkPos(ev) == {p \in 1..Len(brkLog) : brkLog[p].ev = ev}

\* The breaker denied every request it was consulted on.
KeepsDenying == \A p \in BrkPos("Allow") : ~brkLog[p].ok

\* C38: with the default retry policy, a context without deadline that is
\* never cancelled and a breaker that denies every request, a Do call with
\* RetryMax = N consults Allow once per attempt, N+1 times in all, with a
\* backoff between two consecutive consultations, never invokes the base
\* transport and returns the circuit-open error.
C38_DenialsAreRetried ==
    (brkPc = "done" /\ KeepsDenying /\ brkCtx.err = NoErr /\ ~brkCtx.hasDeadline)
        => /\ Cardinality(BrkPos("Allow")) = brkMax + 1
           /\ \A n \in 0..brkMax :
                Cardinality({p \in BrkPos("Allow") : brkLog[p].i = n}) = 1
           /\ \A p, q \in BrkPos("Allow") :
                p < q => \E b \in BrkPos("backoff") : p < b /\ b < q
           /\ Cardinality(BrkPos("backoff")) = brkMax
           /\ BrkPos("base") = {}
           /\ brkLast = [resp |-> NilResp, err |-> ErrCircuitOpen]

C38_Witness ==
    /\ brkPc = "done"
    /\ brkMax = MaxRetryMax
    /\ KeepsDenying
    /\ brkCtx = [hasDeadline |-> FALSE, err |-> NoErr]
    /\ Cardinality(BrkPos("Allow")) = MaxRetryMax + 1
    /\ brkLast.err = ErrCircuitOpen


----------------------------------------------------------------------------
(***************************************************************************)
(* The caller of ExtendedTracedRoundTripper.RoundTrip holds a response     *)
(* whose body is an errorReadCloser and calls Read and Close on it, in any *)
(* order and any number of times.  The body underneath is that of          *)
(* net/http.  For a response with content it is a bodyEOFSignal: once a    *)
(* Read has returned an error it returns that error again, and after Close *)
(* every Read fails.  For a response without content (Content-Length: 0,   *)
(* 204, 304, HEAD) it is http.NoBody (`noBody`): Read returns io.EOF       *)
(* before and after Close.  `rdLog` lists the calls and, after each, the   *)
(* response_fully_read metrics that were recorded.                         *)
(***************************************************************************)

\* How many calls the caller makes on the body.
MaxReads == 4

ErrBodyReadAfterClose == "http: read on closed response body"

\* r.R.Read(p): the bytes and the error the body underneath returns, given
\* what the connection delivers (`n` bytes, then `e`).
underlyingRead(body, n, e) ==
    IF body.noBody THEN [n |-> 0, err |-> EOF]
    ELSE IF body.closed THEN [n |-> 0, err |-> ErrBodyReadAfterClose]
    ELSE IF body.err # NoErr THEN [n |-> 0, err |-> body.err]
    ELSE IF body.left = 0 THEN [n |-> 0, err |-> EOF]
    ELSE IF e \in {ReadErr, TimeoutErr} THEN [n |-> n, err |-> e]
    ELSE IF n = body.left THEN [n |-> n, err |-> e]
    ELSE [n |-> n, err |-> NoErr]

\* (r *errorReadCloser) Read(p): the errors OnErr was called with, given
\* what r.R.Read returned.
errorReadCloserRead(out) ==
    IF out.err # NoErr THEN <<out.err>> ELSE <<>>

\* (r *errorReadCloser) Close(): r.R.Close(), and no call of OnErr.
errorReadCloserClose(body) == [body EXCEPT !.closed = TRUE]

ReadsInit ==
    /\ NoDo
    /\ NoRoundTrip
    /\ NoPool
    /\ NoBackoffFunc
    /\ NoNewRequest
    /\ NoVerdict
    /\ NoReuse
    /\ NoMetrics
    /\ NoConcurrency
    /\ NoCache
    /\ NoDrain
    /\ NoBreakerRetry
    /\ rdBody \in {[left |-> n, err |-> NoErr, closed |-> FALSE, noBody |-> FALSE] :
                        n \in 0..MaxBodyLen}
                  \cup {[left |-> 0, err |-> NoErr, closed |-> FALSE, noBody |-> TRUE]}
    /\ rdLog = <<>>

\* The calls the caller has made.
Calls == {p \in 1..Len(rdLog) : rdLog[p].ev \in {"Read", "Close"}}

\* Lines 337-343: Read on the wrapped body; OnErr (lines 172-177) records
\* the metric with io.EOF turned into nil.
CallRead ==
    /\ rdBody # <<>>
    /\ Cardinality(Calls) < MaxReads
    /\ \E n \in 0..rdBody.left, e \in {NoErr, EOF, ReadErr, TimeoutErr} :
         LET out == underlyingRead(rdBody, n, e)
             heard == errorReadCloserRead(out)
         IN  /\ rdBody' = IF rdBody.closed \/ rdBody.noBody THEN rdBody
                          ELSE [rdBody EXCEPT !.left = @ - out.n, !.err = out.err]
             /\ rdLog' = rdLog
                    \o <<[ev |-> "Read", err |-> out.err]>>
                    \o [k \in 1..Len(heard) |->
                          [ev |-> httpResponseFullyReadTimingMetric,
                           err |-> OnErr(heard[k])]]
    /\ UNCHANGED <<doVars, rtVars, poolVars, boVars, reqVars, clVars, hdrVars,
                   metricVars, coVars, cacheVars, drainVars, brkVars>>

\* Lines 345-347: Close on the wrapped body.
CallClose ==
    /\ rdBody # <<>>
    /\ Cardinality(Calls) < MaxReads
    /\ rdBody' = errorReadCloserClose(rdBody)
    /\ rdLog' = Append(rdLog, [ev |-> "Close", err |-> NoErr])
    /\ UNCHANGED <<doVars, rtVars, poolVars, boVars, reqVars, clVars, hdrVars,
                   metricVars, coVars, cacheVars, drainVars, brkVars>>

ReadsNext ==
    \/ CallRead
    \/ CallClose

ReadsSpec == ReadsInit /\ [][ReadsNext]_vars

\* The positions at which the response_fully_read metric was recorded, and
\* those of the Reads that returned an error or io.EOF.
FullyReadRecordings ==
    {p \in 1..Len(rdLog) : rdLog[p].ev = httpResponseFullyReadTimingMetric}
EndedReads ==
    {p \in 1..Len(rdLog) : rdLog[p].ev = "Read" /\ rdLog[p].err # NoErr}

\* C39: the response_fully_read metric is recorded at most once per
\* response, however often the caller calls Read after the body has ended,
\* and not at all when the body is closed before any Read returned an error
\* or end-of-stream.
C39_RecordedAtMostOnce ==
    /\ Cardinality(FullyReadRecordings) <= 1
    /\ \A p \in 1..Len(rdLog) :
         (rdLog[p].ev = "Close" /\ \A q \in EndedReads : q > p)
             => FullyReadRecordings = {}

\* C39, as the code behaves: the metric is recorded once for every Read that
\* returns an error or io.EOF, directly after it, with io.EOF turned into
\* nil, and Close records nothing.
C39_RecordedPerEndedRead ==
    /\ Cardinality(FullyReadRecordings) = Cardinality(EndedReads)
    /\ \A p \in EndedReads :
         /\ p + 1 \in FullyReadRecordings
         /\ rdLog[p + 1].err = OnErr(rdLog[p].err)
    /\ \A p \in 1..Len(rdLog) :
         rdLog[p].ev = "Close" => p + 1 \notin FullyReadRecordings

C39_Witness ==
    /\ Len(rdLog) = 4
    /\ rdLog[1] = [ev |-> "Read", err |-> EOF]
    /\ rdLog[2] = [ev |-> httpResponseFullyReadTimingMetric, err |-> NoErr]
    /\ rdLog[3] = [ev |-> "Read", err |-> EOF]
    /\ rdLog[4] = [ev |-> httpResponseFullyReadTimingMetric, err |-> NoErr]


----------------------------------------------------------------------------
(***************************************************************************)
(* Termination of Do.  The clock of Spec stops at MaxTime; here the rest   *)
(* of a wait that ends later passes in one step, so that every timer       *)
(* comes due.  The fairness conditions say what the claim assumes: the     *)
(* goroutine of Do runs whenever it can (Prepare, Call, Check, Backoff,    *)
(* Select, Resume), every invocation of the transport and every read of    *)
(* drainBody returns (CallReturn, Drain), time passes (Tick, Elapse) and   *)
(* the runtime delivers the timers that are due (TimerFire, Expire).       *)
(* Nothing obliges the caller to cancel the context.                       *)
(***************************************************************************)

\* A variant of restOfWait in which the clock stands still.
restOfWait_Never(clock, at) == clock

\* The time at which the timer of time.After(backoffWait) is due.
restOfWait(clock, at) == at

\* Line 110: the rest of the backoff wait passes.
Elapse ==
    /\ pc = "wait"
    /\ woken = "none"
    /\ now >= MaxTime
    /\ now < timerAt
    /\ ~ENABLED Expire
    /\ now' = restOfWait(now, timerAt)
    /\ UNCHANGED <<seen, inflight, factoryCalls>>
    /\ UNCHANGED <<rtVars, otherVars>>
    /\ UNCHANGED <<client, req, payload, ctx, pc, i, resp, err, shouldRetry,
                   retryErr, backoffWait, timerAt, woken, ret, exit, calls,
                   checks, waits, last, getBodyErr>>

LiveInit ==
    /\ Init
    /\ payload = Payload(MaxPayloadLen)
    /\ req = NewRequest("ReaderFunc", payload)
    /\ client.CheckRetry = "custom"
    /\ client.BackoffStrategy \in {NilBackoff, ConstantBackoff(1)}
    /\ ctx.deadline \in {NoDeadline, MaxTime}

LiveNext ==
    \/ Next
    \/ Elapse

LiveSpec ==
    /\ LiveInit
    /\ [][LiveNext]_vars
    /\ WF_vars(Prepare)
    /\ WF_vars(Call)
    /\ WF_vars(CallReturn)
    /\ WF_vars(Check)
    /\ WF_vars(Drain)
    /\ WF_vars(Backoff)
    /\ WF_vars(Select)
    /\ WF_vars(TimerFire)
    /\ WF_vars(Resume)
    /\ WF_vars(Expire)
    /\ WF_vars(Tick)
    /\ WF_vars(Elapse)

\* C40: with a finite RetryMax, a transport, a policy and a body factory
\* that return, and finite waits, every Do call returns; a select that the
\* timer or the end of the context has won is left.
C40_DoReturns ==
    /\ <>(pc = "done")
    /\ (pc = "wait" /\ woken # "none") ~> (pc # "wait")

C40_Witness ==
    /\ pc = "done"
    /\ exit = "L84"
    /\ calls = MaxRetryMax + 1
    /\ waits = MaxRetryMax
    /\ now > MaxTime

====
